---- MODULE Spec2Model ----
(***************************************************************************)
(* A model of the homelab server: its power orchestrator                   *)
(* (src/server/power_service.py), its configuration store                  *)
(* (src/server/config.py), the streaming power endpoints                   *)
(* (src/server/main.py) and the status aggregation                         *)
(* (src/server/status_service.py).                                         *)
(*                                                                         *)
(* SpecConfig: threads of save() and of the mutators over one config file. *)
(* SpecState: sequential calls of update_server_state.                     *)
(* SpecStream, SpecStreamLive: one streamed operation, its queue, the      *)
(* event loop and the consumer; the second adds the loop's fairness.       *)
(* SpecRace: two power requests admitted for one server.                   *)
(* SpecStatus: one get_all_status call over outlets that answer, fail or   *)
(* answer garbage.                                                         *)
(* SpecStore: the operations of one Config one after another, with the     *)
(* config file and its backup.                                             *)
(* SpecApi: requests to the REST handlers one after another.               *)
(* SpecList: one get_all_status call and an administrative request served  *)
(* while it is suspended.                                                  *)
(* SpecCost: the cost fields of one status entry.                          *)
(* SpecEvents: calls on the event service one after another.               *)
(*                                                                         *)
(* SpecPowerLive: SpecPower with calls and sleeps that end.                 *)
(*                                                                         *)
(* SpecPower: one run of PowerControlService.power_on or power_off against *)
(* an environment that answers every ping, power sample and outlet/host    *)
(* command nondeterministically (value, or failure where the call can      *)
(* raise).  Time is wall-clock seconds since the start of the current      *)
(* wait; every capability call may take 0..MaxLatency seconds.             *)
(***************************************************************************)
EXTENDS Integers, Sequences, FiniteSets, TLC

\* ------------------------------------------------------------------ power
\* Program constants of power_service.py.
BootWait == 60
ShutdownTimeout == 120
SleepInterval == 2
LowPowerHold == 10
Threshold == 5

\* Bounds of the environment.
MaxLatency == 1
MaxWatts == 6

\* Python's None for a time or a sample, and a read that raised, kept apart from
\* every time and every wattage.
None == -1
Fail == -2
Readings == {0, Threshold - 1, Threshold, MaxWatts}
Latencies == 0..MaxLatency

NoResult == [success |-> FALSE, message |-> "", returned |-> FALSE]

VARIABLES
  op,          \* "on" | "off": the operation this run executes
  pc,          \* position in the operation
  now,         \* time.time() - start of the current wait
  passed,      \* `passed`: the time at the top of the current loop iteration
  wait,        \* power_on: number of _monitor_boot calls started
  power,       \* last value of the local `power` (None before, Fail on a failed read)
  tsLow,       \* power_off: timestamp_low_power
  exit,        \* power_off: how the monitoring loop ended: "none" | "early" | "timeout"
  result,      \* the result dict, with whether it was returned
  calls,       \* outlet and host commands issued so far, in order
  pingOk,      \* whether a Ping returned true
  polls,       \* number of Ping calls made
  failed,      \* the call whose exception left the operation, or "none"
  runStart,    \* time of the first reading of the current unbroken run of
               \* below-threshold readings (None when the last reading was not below)
  shutdownOk,  \* power_off: the shutdown command "returned" or "raised" ("none" before)
  sawFail,     \* power_off: whether some power read failed
  sawRead,     \* power_off: whether some power read returned a reading
  dipped       \* power_off: whether a run of below-threshold readings was broken
               \* by a reading at or above the threshold

pvars == <<op, pc, now, passed, wait, power, tsLow, exit, result, calls, pingOk,
           polls, failed, runStart, shutdownOk, sawFail, sawRead,
                 dipped>>

\* The configuration store (SpecConfig, below).
VARIABLES
  instOf,      \* the Config instance each thread works on
  file,        \* the live config file
  bak,         \* the .json.bak file
  mem,         \* self.data of each instance
  th,          \* each thread: its position in the running call (pc), the call
               \* (kind, name), and inside json.dump: the section being
               \* iterated (sec), that section as it was when its iteration
               \* began (win), the text written so far (acc), and the dict
               \* object being dumped: self.data itself (live) or the object a
               \* reload() has since replaced (held)
  tmp,         \* each thread's temporary file
  opsLeft,     \* calls still to be made
  utc,         \* datetime.utcnow()
  hist,        \* the calls begun so far
  raisedCalls, \* the calls that raised
  durable,     \* plugs whose add_plug has returned, with the adding instance
  fault        \* whether the environment made a write fail

cvars == <<instOf, file, bak, mem, th, tmp, opsLeft, utc, hist, raisedCalls,
           durable, fault>>

\* One Config used by one caller, call after call (SpecState, below).
VARIABLES
  sdoc,        \* self.data
  sfile,       \* the live config file
  sclock,      \* datetime.utcnow()
  sseen,       \* per server name, the value the previous call for it passed
               \* (None before the first call)
  slast,       \* the last call: its arguments, its time, self.data["state"] and
               \* the file before it, and how save() ended
  sleft,       \* calls still to be made
  slife        \* per server name, what happened to its server record since
               \* the last update_server_state for it: "same", "removed"
               \* (remove_server deleted it) or "back" (add_server added it
               \* again after that)

svars == <<sdoc, sfile, sclock, sseen, slast, sleft, slife>>

\* The progress stream of one /power/on or /power/off request (SpecStream,
\* below).
VARIABLES
  sop,         \* "on" | "off": the operation the request runs
  ppc,         \* the task run_power_on / run_power_off: "run" (it holds the
               \* event loop), "wait" (suspended in an await) or "done"
  awaiting,    \* what the suspended task awaits: "none" | "io" | "TurnOff"
  nlogs,       \* number of log() calls made: len(result["logs"])
  nawaits,     \* number of awaits other than the final turn_off made
  offIssued,   \* whether the operation's final turn_off was called
  pend,        \* log_queue.put(msg) coroutines handed to
               \* run_coroutine_threadsafe that have not yet run
  queue,       \* log_queue
  delivered,   \* the events event_generator has yielded, keepalives left out
  cpc,         \* event_generator: "loop", "await_task" (after break), "closed"
               \* or "gone" (the client went away)
  keptAlive    \* whether a keepalive was yielded

qvars == <<sop, ppc, awaiting, nlogs, nawaits, offIssued, pend, queue,
           delivered, cpc, keptAlive>>

\* Two power requests for one server (SpecRace, below).
VARIABLES
  rvalid,      \* whether the server is configured with a plug and a MAC
  rkind,       \* each request: "on" (/power/on) or "off" (/power/off)
  rpc,         \* each request: "new", "rejected", "admitted" (its operation
               \* was started), "monitor" (the operation is in its polling
               \* loop) or "done"
  events       \* admissions and host/outlet commands so far, in order

rvars == <<rvalid, rkind, rpc, events>>

\* One call of StatusService.get_all_status (SpecStatus, below).
VARIABLES
  tplugs,      \* the configured plugs (config.list_plugs())
  tservers,    \* the configured servers: name -> [hostname, plug]
  tanswer,     \* how each outlet answers: "on" | "off" (it answers, switched
               \* on or off), "unreachable" (its calls fail or time out) or
               \* "garbled" (it answers with a reading that is not a number)
  tup,         \* the servers that answer the ping
  tdisk,       \* whether a write of the config file succeeds
  tstate,      \* config.data["state"]
  tpc,         \* "plugs", "servers", "summary", "done" or "raised"
  tidx,        \* index of the next plug or server in the running loop
  tplugsOut,   \* plugs_status
  tserversOut, \* servers_status
  tsummary,    \* summary, as the last call that returned computed it
  tagain       \* whether a second call is still to come

tvars == <<tplugs, tservers, tanswer, tup, tdisk, tstate, tpc, tidx,
           tplugsOut, tserversOut, tsummary, tagain>>

\* One Config whose operations run one after another (SpecStore, below).
VARIABLES
  adoc,        \* self.data
  afile,       \* the config file
  abak,        \* the .json.bak file next to it
  alast,       \* the last call: its arguments, what it found and what it did
  aleft,       \* calls still to be made
  aprev,       \* the config file as it was just before the last write of it
  abacked,     \* the config file as the last successful backup copy found it
  awrites      \* how many times the config file was written

avars == <<adoc, afile, abak, alast, aleft, aprev, abacked, awrites>>

\* Requests to the REST handlers, one after another (SpecApi, below).
VARIABLES
  gdoc,        \* config.data
  gcalls,      \* the outlet and host calls made for the last request
  glast,       \* the last request and its answer
  gleft        \* requests still to come

gvars == <<gdoc, gcalls, glast, gleft>>

\* One get_all_status call and one administrative request served while it is
\* suspended (SpecList, below).
VARIABLES
  lplugs,      \* config.data["plugs"], in the order of the dict
  lservers,    \* config.data["servers"], in the order of the dict
  lstart,      \* the plugs and servers configured when the call began
  lpc,         \* "plugs", "servers", "done" or "raised"
  lidx,        \* position of the running dict iterator
  lsize,       \* size of the dict when the running iterator was made
  lawait,      \* whether the call is suspended in an outlet read
  lcur,        \* the entry the loop body holds
  lpout,       \* plugs_status
  lsout,       \* servers_status
  ladmin       \* whether the administrative request is still to come

lvars == <<lplugs, lservers, lstart, lpc, lidx, lsize, lawait, lcur, lpout,
           lsout, ladmin>>

\* One cost derivation of the status service (SpecCost, below).
VARIABLES
  kprice,      \* settings.electricity_price, in hundredths
  ktoday,      \* today_energy of the outlet, in Wh
  kmonth,      \* month_energy of the outlet, in Wh
  kpower,      \* current_power of the outlet, in W
  kcost        \* the cost fields of the returned entry, in ten-thousandths,
               \* and the method that built it ("none" before)

kvars == <<kprice, ktoday, kmonth, kpower, kcost>>

\* The listeners of EventService and the calls made on it (SpecEvents, below).
VARIABLES
  elisteners,  \* EventService.listeners: per event name the callbacks, in
               \* the order of their registration (no key: no callbacks)
  eraises,     \* the callbacks that raise when awaited
  elast,       \* the last call: its arguments, the listeners before it, the
               \* callbacks it awaited, in order, and whether it raised
  eleft        \* calls still to be made

evars == <<elisteners, eraises, elast, eleft>>

vars == <<pvars, cvars, svars, qvars, rvars, tvars, avars, gvars, lvars, kvars, evars>>

\* What the actions of one component leave alone.
notPower == <<cvars, svars, qvars, rvars, tvars, avars, gvars, lvars, kvars, evars>>
notConfig == <<pvars, svars, qvars, rvars, tvars, avars, gvars, lvars, kvars, evars>>
notState == <<pvars, cvars, qvars, rvars, tvars, avars, gvars, lvars, kvars, evars>>
notStream == <<pvars, cvars, svars, rvars, tvars, avars, gvars, lvars, kvars, evars>>
notRace == <<pvars, cvars, svars, qvars, tvars, avars, gvars, lvars, kvars, evars>>
notStatus == <<pvars, cvars, svars, qvars, rvars, avars, gvars, lvars, kvars, evars>>
notStore == <<pvars, cvars, svars, qvars, rvars, tvars, gvars, lvars, kvars, evars>>
notApi == <<pvars, cvars, svars, qvars, rvars, tvars, avars, lvars, kvars, evars>>
notList == <<pvars, cvars, svars, qvars, rvars, tvars, avars, gvars, kvars, evars>>
notCost == <<pvars, cvars, svars, qvars, rvars, tvars, avars, gvars, lvars, evars>>
notEvents == <<pvars, cvars, svars, qvars, rvars, tvars, avars, gvars, lvars, kvars>>

Count(s, c) == Cardinality({i \in DOMAIN s : s[i] = c})
Last(s) == s[Len(s)]
OutletCmds(s) == SelectSeq(s, LAMBDA c : c \in {"TurnOn", "TurnOff"})

PowerInit ==
  /\ op \in {"on", "off"}
  /\ pc = IF op = "on" THEN "on_turn_on" ELSE "off_shutdown"
  /\ now = 0
  /\ passed = 0
  /\ wait = 0
  /\ power = None
  /\ tsLow = None
  /\ exit = "none"
  /\ result = NoResult
  /\ calls = <<>>
  /\ pingOk = FALSE
  /\ polls = 0
  /\ failed = "none"
  /\ runStart = None
  /\ shutdownOk = "none"
  /\ sawFail = FALSE
  /\ sawRead = FALSE
  /\ dipped = FALSE

\* An exception leaves the coroutine: nothing is returned.
Raise(call) ==
  /\ pc' = "raised"
  /\ failed' = call

\* return result
Return(success, message) ==
  /\ pc' = "done"
  /\ result' = [success |-> success, message |-> message, returned |-> TRUE]

\* ---------------------------------------------------------------- power_on
\* await self.plug_service.turn_on(plug_ip); then the first _monitor_boot starts.
OnTurnOn ==
  /\ op = "on" /\ pc = "on_turn_on"
  /\ UNCHANGED notPower
  /\ calls' = Append(calls, "TurnOn")
  /\ \/ /\ pc' = "on_wait"
        /\ wait' = 1
        /\ now' = 0
        /\ UNCHANGED <<failed>>
     \/ /\ Raise("TurnOn")
        /\ UNCHANGED <<wait, now>>
  /\ UNCHANGED <<op, passed, power, tsLow, exit, result, pingOk, polls,
                 runStart, shutdownOk, sawFail, sawRead,
                 dipped>>

\* Faulty variant, for sensitivity: the successful ping is logged but the loop goes on.
OnBootedMut ==
  /\ pc' = "on_wait"
  /\ UNCHANGED result

\* power_on after a _monitor_boot that returned True.
OnBooted ==
  Return(TRUE, "Server powered on successfully")

\* One iteration of _monitor_boot's loop in which the ping did not succeed: the
\* power sample is informational (a failed read is logged and swallowed), then
\* asyncio.sleep(2).
OnPollMiss(lat) ==
  /\ pc' = "on_wait"
  /\ now' = now + lat + SleepInterval
  /\ UNCHANGED <<result>>

\* One iteration of _monitor_boot's loop.
OnPoll ==
  /\ op = "on" /\ pc = "on_wait"
  /\ UNCHANGED notPower
  /\ now < BootWait
  /\ passed' = now
  /\ polls' = polls + 1
  /\ \E ping \in BOOLEAN, lat \in Latencies :
       /\ pingOk' = ping
       /\ IF ping
            THEN OnBooted /\ UNCHANGED now
            ELSE OnPollMiss(lat)
  /\ UNCHANGED <<op, wait, power, tsLow, exit, calls, failed, runStart,
                 shutdownOk, sawFail, sawRead,
                 dipped>>

\* Faulty variant, for sensitivity: the threshold is off by one watt.
NeedsWOLMut(p) == p < Threshold - 1

\* if power < 5.0
NeedsWOL(p) == p < Threshold

\* Faulty variant, for sensitivity: the second expired wait is followed by the
\* power check again.
OnWaitExpiredMut ==
  /\ op = "on" /\ pc = "on_wait"
  /\ UNCHANGED notPower
  /\ now >= BootWait
  /\ pc' = "on_check_power"
  /\ UNCHANGED <<op, now, passed, wait, power, tsLow, exit, result, calls,
                 pingOk, polls, failed, runStart, shutdownOk, sawFail, sawRead,
                 dipped>>

\* _monitor_boot returns False: the loop condition failed.
OnWaitExpired ==
  /\ op = "on" /\ pc = "on_wait"
  /\ UNCHANGED notPower
  /\ now >= BootWait
  /\ pc' = IF wait = 1 THEN "on_check_power" ELSE "on_turn_off"
  /\ UNCHANGED <<op, now, passed, wait, power, tsLow, exit, result, calls,
                 pingOk, polls, failed, runStart, shutdownOk, sawFail, sawRead,
                 dipped>>

\* power = await self.plug_service.get_power(plug_ip), outside any try.
OnCheckPower ==
  /\ op = "on" /\ pc = "on_check_power"
  /\ UNCHANGED notPower
  /\ \E r \in Readings \cup {Fail} :
       /\ power' = r
       /\ IF r = Fail
            THEN Raise("GetPower") /\ UNCHANGED result
            ELSE IF NeedsWOL(r)
              THEN pc' = "on_wol" /\ UNCHANGED <<failed, result>>
              ELSE Return(TRUE, "Server powered on successfully")
                   /\ UNCHANGED failed
  /\ UNCHANGED <<op, now, passed, wait, tsLow, exit, calls, pingOk, polls,
                 runStart, shutdownOk, sawFail, sawRead,
                 dipped>>

\* self.server_service.send_wol(server["mac"]); then the second _monitor_boot.
OnSendWOL ==
  /\ op = "on" /\ pc = "on_wol"
  /\ UNCHANGED notPower
  /\ calls' = Append(calls, "SendWOL")
  /\ \/ /\ pc' = "on_wait"
        /\ wait' = 2
        /\ now' = 0
        /\ UNCHANGED failed
     \/ /\ Raise("SendWOL")
        /\ UNCHANGED <<wait, now>>
  /\ UNCHANGED <<op, passed, power, tsLow, exit, result, pingOk, polls,
                 runStart, shutdownOk, sawFail, sawRead,
                 dipped>>

\* The second wait expired: turn the plug off and return the failure.
OnTurnOff ==
  /\ op = "on" /\ pc = "on_turn_off"
  /\ UNCHANGED notPower
  /\ calls' = Append(calls, "TurnOff")
  /\ \/ Return(FALSE, "Server failed to boot") /\ UNCHANGED failed
     \/ Raise("TurnOff") /\ UNCHANGED result
  /\ UNCHANGED <<op, now, passed, wait, power, tsLow, exit, pingOk, polls,
                 runStart, shutdownOk, sawFail, sawRead,
                 dipped>>

\* --------------------------------------------------------------- power_off
\* self.server_service.shutdown(hostname) inside try/except Exception: a failure
\* is logged and the sequence continues.  Then start = time.time().
OffShutdown ==
  /\ op = "off" /\ pc = "off_shutdown"
  /\ UNCHANGED notPower
  /\ calls' = Append(calls, "Shutdown")
  /\ shutdownOk' \in {"returned", "raised"}
  /\ pc' = "off_loop"
  /\ now' = 0
  /\ UNCHANGED <<op, passed, wait, power, tsLow, exit, result, pingOk, polls,
                 failed, runStart, sawFail, sawRead,
                 dipped>>

\* Faulty variant, for sensitivity: a reading at or above the threshold leaves the timestamp in place.
NextTimestampMut(ts, p, t) ==
  IF p < Threshold THEN (IF ts = None THEN t ELSE ts) ELSE ts

\* The new timestamp_low_power after a successful reading p taken at time t:
\*   if power < 5.0: if timestamp_low_power is None: timestamp_low_power = time.time()
\*   else: timestamp_low_power = None
NextTimestamp(ts, p, t) ==
  IF p < Threshold THEN (IF ts = None THEN t ELSE ts) ELSE None

\* Faulty variant, for sensitivity: the hold is compared with >=.
HoldElapsedMut(t, ts) == t - ts >= LowPowerHold

\* if time.time() - timestamp_low_power > 10
HoldElapsed(t, ts) == t - ts > LowPowerHold

\* The first reading of the current unbroken run of below-threshold readings
\* (failed reads are no readings).
NextRunStart(rs, p, t) ==
  IF p >= Threshold THEN None ELSE IF rs = None THEN t ELSE rs

\* Faulty variant, for sensitivity: a failed read clears the timestamp.
OffPollMut ==
  /\ op = "off" /\ pc = "off_loop"
  /\ UNCHANGED notPower
  /\ now < ShutdownTimeout
  /\ passed' = now
  /\ \E lat \in Latencies, r \in Readings \cup {Fail} :
       /\ now' = now + lat
       /\ power' = r
       /\ IF r = Fail
            THEN /\ pc' = "off_sleep"
                 /\ sawFail' = TRUE
                 /\ tsLow' = None
                 /\ UNCHANGED <<runStart, exit, dipped, sawRead>>
            ELSE /\ tsLow' = NextTimestamp(tsLow, r, now')
                 /\ runStart' = NextRunStart(runStart, r, now')
                 /\ dipped' = (dipped \/ (runStart # None /\ r >= Threshold))
                 /\ IF r < Threshold /\ HoldElapsed(now', tsLow')
                      THEN pc' = "off_turn_off" /\ exit' = "early"
                      ELSE pc' = "off_sleep" /\ UNCHANGED exit
                 /\ sawRead' = TRUE
                 /\ UNCHANGED sawFail
  /\ UNCHANGED <<op, wait, result, calls, pingOk, polls, failed, shutdownOk>>

\* One iteration of power_off's loop up to the sleep: read the power (taking
\* lat seconds); a failed read is swallowed by the except clause.
OffPoll ==
  /\ op = "off" /\ pc = "off_loop"
  /\ UNCHANGED notPower
  /\ now < ShutdownTimeout
  /\ passed' = now
  /\ \E lat \in Latencies, r \in Readings \cup {Fail} :
       /\ now' = now + lat
       /\ power' = r
       /\ IF r = Fail
            THEN /\ pc' = "off_sleep"
                 /\ sawFail' = TRUE
                 /\ UNCHANGED <<tsLow, runStart, exit, dipped, sawRead>>
            ELSE /\ tsLow' = NextTimestamp(tsLow, r, now')
                 /\ runStart' = NextRunStart(runStart, r, now')
                 /\ dipped' = (dipped \/ (runStart # None /\ r >= Threshold))
                 /\ IF r < Threshold /\ HoldElapsed(now', tsLow')
                      THEN pc' = "off_turn_off" /\ exit' = "early"
                      ELSE pc' = "off_sleep" /\ UNCHANGED exit
                 /\ sawRead' = TRUE
                 /\ UNCHANGED sawFail
  /\ UNCHANGED <<op, wait, result, calls, pingOk, polls, failed, shutdownOk>>

\* await asyncio.sleep(2)
OffSleep ==
  /\ op = "off" /\ pc = "off_sleep"
  /\ UNCHANGED notPower
  /\ now' = now + SleepInterval
  /\ pc' = "off_loop"
  /\ UNCHANGED <<op, passed, wait, power, tsLow, exit, result, calls, pingOk,
                 polls, failed, runStart, shutdownOk, sawFail, sawRead,
                 dipped>>

\* The while condition fails: the else clause logs the timeout.
OffTimeout ==
  /\ op = "off" /\ pc = "off_loop"
  /\ UNCHANGED notPower
  /\ now >= ShutdownTimeout
  /\ exit' = "timeout"
  /\ pc' = "off_turn_off"
  /\ UNCHANGED <<op, now, passed, wait, power, tsLow, result, calls, pingOk,
                 polls, failed, runStart, shutdownOk, sawFail, sawRead,
                 dipped>>

\* Faulty variant, for sensitivity: a machine confirmed powered down is not turned off at the outlet.
OffTurnOffMut ==
  /\ op = "off" /\ pc = "off_turn_off"
  /\ UNCHANGED notPower
  /\ IF exit = "early"
       THEN /\ Return(TRUE, "Server powered off successfully")
            /\ UNCHANGED <<calls, failed>>
       ELSE /\ calls' = Append(calls, "TurnOff")
            /\ \/ Return(TRUE, "Server powered off successfully")
                  /\ UNCHANGED failed
               \/ Raise("TurnOff") /\ UNCHANGED result
  /\ UNCHANGED <<op, now, passed, wait, power, tsLow, exit, pingOk, polls,
                 runStart, shutdownOk, sawFail, sawRead,
                 dipped>>

\* await self.plug_service.turn_off(plug_ip), outside any try; then the result.
OffTurnOff ==
  /\ op = "off" /\ pc = "off_turn_off"
  /\ UNCHANGED notPower
  /\ calls' = Append(calls, "TurnOff")
  /\ \/ Return(TRUE, "Server powered off successfully") /\ UNCHANGED failed
     \/ Raise("TurnOff") /\ UNCHANGED result
  /\ UNCHANGED <<op, now, passed, wait, power, tsLow, exit, pingOk, polls,
                 runStart, shutdownOk, sawFail, sawRead,
                 dipped>>

PowerNext ==
  \/ OnTurnOn
  \/ OnPoll
  \/ OnWaitExpired
  \/ OnCheckPower
  \/ OnSendWOL
  \/ OnTurnOff
  \/ OffShutdown
  \/ OffPoll
  \/ OffSleep
  \/ OffTimeout
  \/ OffTurnOff


\* ----------------------------------------------------------- power claims
Finished == pc \in {"done", "raised"}
LowReading == power \in Readings /\ power < Threshold
FailedToBoot ==
  [success |-> FALSE, message |-> "Server failed to boot", returned |-> TRUE]
PoweredOff ==
  [success |-> TRUE, message |-> "Server powered off successfully",
   returned |-> TRUE]

\* C1: power_on returns success=true only if a Ping returned true during one of
\* its boot waits.
C1_SuccessOnlyAfterPing ==
  (op = "on" /\ result.returned /\ result.success) => pingOk

\* C2: whenever power_on returns a result and no ping succeeded, the last outlet
\* command it issued is TurnOff.
C2_FailClosed ==
  (op = "on" /\ result.returned /\ ~pingOk)
    => /\ OutletCmds(calls) # <<>>
       /\ Last(OutletCmds(calls)) = "TurnOff"

\* C3: with Ping false at every poll and the power sampled after the first wait
\* below the threshold, power_on sends SendWOL exactly once and runs a second
\* bounded wait; when that wait expires it issues TurnOff and returns
\* success=false.  The run ends otherwise only when SendWOL or TurnOff itself
\* raises.
C3_WolFallback ==
  (op = "on" /\ ~pingOk /\ LowReading) =>
    /\ pc \in {"on_wol", "on_wait", "on_turn_off", "done", "raised"}
    /\ pc = "on_wol" => calls = <<"TurnOn">> /\ wait = 1
    /\ pc # "on_wol" => Count(calls, "SendWOL") = 1
    /\ failed = "SendWOL" => pc = "raised" /\ wait = 1
    /\ (pc # "on_wol" /\ failed # "SendWOL") => wait = 2
    /\ pc = "on_wait" =>
         /\ calls = <<"TurnOn", "SendWOL">>
         /\ passed < BootWait
         /\ now < BootWait + SleepInterval + MaxLatency
    /\ pc = "on_turn_off" => now >= BootWait /\ calls = <<"TurnOn", "SendWOL">>
    /\ pc = "done" =>
         /\ calls = <<"TurnOn", "SendWOL", "TurnOff">>
         /\ now >= BootWait
         /\ result = FailedToBoot
    /\ pc = "raised" => failed \in {"SendWOL", "TurnOff"}

C3_Witness ==
  /\ op = "on" /\ pc = "done" /\ ~pingOk /\ LowReading
  /\ wait = 2 /\ Count(calls, "SendWOL") = 1 /\ ~result.success

\* C4: if Ping returns true at a poll of the first wait, power_on stops polling
\* at that poll and returns success=true, having called TurnOn exactly once and
\* neither SendWOL nor TurnOff.
C4_SuccessPath ==
  (op = "on" /\ pingOk /\ wait = 1) =>
    /\ pc = "done"
    /\ result.returned /\ result.success
    /\ calls = <<"TurnOn">>
    /\ passed < BootWait

C4_Witness ==
  op = "on" /\ pingOk /\ wait = 1 /\ polls = 3 /\ pc = "done" /\ result.success

\* C5: for every sequence of power readings, shutdown outcome and loop exit,
\* power_off issues TurnOff exactly once, after the monitoring loop, and returns
\* success=true (it ends otherwise only when that TurnOff call itself raises).
C5_AlwaysTurnsOff ==
  op = "off" =>
    /\ Count(calls, "TurnOff") <= 1
    /\ Count(calls, "TurnOff") = 1 => exit # "none"
    /\ exit # "none" => pc \in {"off_turn_off", "done", "raised"}
    /\ Finished => Count(calls, "TurnOff") = 1 /\ Last(calls) = "TurnOff"
    /\ pc = "done" => result = PoweredOff
    /\ pc = "raised" => failed = "TurnOff"
    /\ pc \notin {"done", "raised"} => ~result.returned

C5_Witness ==
  /\ op = "off" /\ pc = "done" /\ result.success
  /\ shutdownOk = "raised" /\ sawFail /\ exit = "timeout"

\* C6, as stated: at the first poll at which the draw has been below the
\* threshold continuously for at least 10s, polling stops.
C6_StopsAtTenSeconds ==
  ~(op = "off" /\ pc = "off_sleep" /\ LowReading /\ runStart # None
      /\ now - runStart >= LowPowerHold)

\* C6, amended: polling goes on after a below-threshold reading only while no
\* more than 10s have passed since the first reading of the unbroken
\* below-threshold run; the first such reading taken more than 10s after it
\* stops the polling, in an iteration begun before the 120s bound, and TurnOff
\* is still issued.
C6_StopsAfterTenSeconds ==
  op = "off" =>
    /\ (pc = "off_sleep" /\ LowReading) =>
         runStart # None /\ now - runStart <= LowPowerHold
    /\ exit = "early" =>
         /\ LowReading /\ runStart # None
         /\ now - runStart > LowPowerHold
         /\ passed < ShutdownTimeout
         /\ pc \in {"off_turn_off", "done", "raised"}
    /\ (exit = "early" /\ Finished) => Last(calls) = "TurnOff"

C6_Witness ==
  /\ op = "off" /\ exit = "early" /\ pc = "done" /\ dipped
  /\ now < ShutdownTimeout /\ Last(calls) = "TurnOff"

\* C7: a reading at or above the threshold clears timestamp_low_power, so the
\* timestamp is the time of the first reading of the current unbroken run of
\* below-threshold readings, and the loop exits early only when at least the
\* required time has passed since that reading.
C7_DipGivesNoCredit ==
  op = "off" =>
    /\ (pc = "off_sleep" /\ power \in Readings /\ power >= Threshold) =>
         tsLow = None
    /\ tsLow = runStart
    /\ exit = "early" =>
         /\ runStart # None
         /\ now - runStart >= LowPowerHold
         /\ LowReading

C7_Witness ==
  /\ op = "off" /\ exit = "early" /\ dipped /\ sawFail
  /\ runStart > LowPowerHold

\* C8: power_on and power_off never raise: whatever outlet or host call fails,
\* the operation ends by returning its result.
C8_NeverRaises ==
  /\ pc # "raised"
  /\ Finished => result.returned

\* The longest one loop iteration lasts: its calls and the sleep.
MaxIteration == MaxLatency + SleepInterval

\* C32, as stated: a boot wait that expires has lasted at most 60s and a
\* shutdown wait that expires at most 120s.
C32_WaitEndsWithinTimeout ==
  /\ (op = "on" /\ pc \in {"on_check_power", "on_turn_off"}) => now <= BootWait
  /\ (op = "off" /\ exit = "timeout") => now <= ShutdownTimeout

\* What holds of the waits in every state: power_on runs at most two boot
\* waits and power_off one shutdown wait; every poll begins before the
\* timeout of its wait and the wait is over within one loop iteration after
\* it; an expired wait is followed by the power check (first boot wait), the
\* forced TurnOff (second boot wait, shutdown wait) and by nothing else; an
\* operation ends by an exception only when an outlet or host call raised.
WaitsBounded ==
  /\ wait <= 2
  /\ Count(calls, "SendWOL") <= 1
  /\ polls <= 2 * (BootWait \div SleepInterval)
  /\ pc = "on_wait" =>
       /\ wait \in {1, 2}
       /\ passed < BootWait
       /\ now < BootWait + MaxIteration
  /\ pc = "on_check_power" => wait = 1 /\ now >= BootWait
  /\ pc = "on_wol" => wait = 1 /\ power < Threshold
  /\ pc = "on_turn_off" => wait = 2 /\ now >= BootWait
  /\ pc \in {"off_loop", "off_sleep"} =>
       /\ exit = "none"
       /\ passed < ShutdownTimeout
       /\ now < ShutdownTimeout + MaxIteration
  /\ exit = "timeout" =>
       /\ now >= ShutdownTimeout /\ now < ShutdownTimeout + MaxIteration
       /\ pc \in {"off_turn_off", "done", "raised"}
  /\ pc \in {"on_check_power", "on_wol", "on_turn_off", "off_turn_off"} =>
       failed = "none" /\ ~result.returned
  /\ pc = "raised" => failed \in {"TurnOn", "GetPower", "SendWOL", "TurnOff"}

\* C32, amended: when every call returns or raises and the sleeps end, every
\* power_on and power_off terminates; no poll begins at or after the timeout
\* of its wait (60s, at most twice; 120s) and a wait that expires ends within
\* one loop iteration after the timeout; the expiry leads to the power check,
\* the WOL fallback or the forced TurnOff, never to an error.
C32_WaitsBoundedAndOver == []WaitsBounded /\ <>Finished

C32_Witness ==
  /\ op = "on" /\ pc = "done" /\ wait = 2 /\ ~pingOk
  /\ now > BootWait /\ result = FailedToBoot

\* After a failed power read the loop goes on with the timestamp and the run
\* of below-threshold readings as they were.
FailedReadKeepsTimestamp ==
  (op = "off" /\ pc = "off_loop" /\ now < ShutdownTimeout /\ power' = Fail) =>
    /\ pc' = "off_sleep"
    /\ tsLow' = tsLow
    /\ exit' = exit

\* C38: in power_off a poll whose power read fails neither sets nor clears
\* timestamp_low_power, so the timestamp stays the time of the first reading
\* of the unbroken below-threshold run whatever reads fail within the run; a
\* run of polls in which no read returned a reading never ends early: it ends
\* by the 120s timeout and TurnOff follows.
C38_FailedReadsKeepTimestamp ==
  /\ [][FailedReadKeepsTimestamp]_vars
  /\ [](op = "off" =>
         /\ tsLow = runStart
         /\ exit = "early" => now - runStart > LowPowerHold
         /\ ~sawRead =>
              /\ tsLow = None /\ exit # "early"
              /\ exit = "timeout" => now >= ShutdownTimeout
              /\ pc \in {"off_turn_off", "done", "raised"}
                   => exit = "timeout"
              /\ Finished => Last(calls) = "TurnOff")

C38_Witness ==
  /\ op = "off" /\ pc = "done" /\ exit = "early"
  /\ sawFail /\ ~dipped /\ power # Fail
  /\ runStart <= MaxLatency /\ now < 2 * LowPowerHold

\* A power_off in which every power read failed has returned.
OnlyFailedReads ==
  /\ op = "off" /\ pc = "done" /\ sawFail /\ ~sawRead
  /\ exit = "timeout" /\ Last(calls) = "TurnOff" /\ result = PoweredOff

\* ----------------------------------------------------------------- config
(***************************************************************************)
(* SpecConfig: Config objects (src/server/config.py) on one config path.   *)
(* Each instance (the REST API's, the bot's) holds its own in-memory       *)
(* document self.data, loaded when it was constructed; threads call the    *)
(* mutating operations of their instance.  A save is a sequence of steps   *)
(* that other threads and instances interleave with: the backup copy, the  *)
(* serialization of self.data section by section into a private temporary  *)
(* file, and the rename over the live file.  The documents hold only JSON  *)
(* values (strings, booleans, numbers, null), which json.load reads back   *)
(* as json.dump wrote them.                                                *)
(***************************************************************************)
MaxOps == 2

Threads == {"t1", "t2"}
Insts == {"api", "bot"}
PlugNames == {"p1", "p2"}
ServerNames == {"s1"}
IPs == {"ip1"}
Sections == <<"plugs", "servers", "state">>

EmptyMap == [x \in {} |-> 0]
Put(f, k, v) == [x \in DOMAIN f \cup {k} |-> IF x = k THEN v ELSE f[x]]

\* A dict after del d[k].
Del(f, k) == [x \in DOMAIN f \ {k} |-> f[x]]

\* The default document of _load.
DefaultDoc ==
  [plugs |-> EmptyMap, servers |-> EmptyMap, state |-> EmptyMap, price |-> 0]

\* A file of the config directory: absent, unparsable, or a JSON document.
NoFile == [kind |-> "none", doc |-> DefaultDoc]
Corrupt == [kind |-> "corrupt", doc |-> DefaultDoc]
FileOf(d) == [kind |-> "doc", doc |-> d]

\* Config._load: the parsed document, or the default one when the file is
\* missing or json.load raises.
Load(f) == IF f.kind = "doc" THEN f.doc ELSE DefaultDoc

IdleThread ==
  [pc |-> "idle", kind |-> "none", name |-> "none", sec |-> 0,
   win |-> EmptyMap, acc |-> DefaultDoc, live |-> TRUE, held |-> DefaultDoc]

ConfigInit ==
  /\ instOf \in [Threads -> Insts]
  /\ file \in {NoFile, Corrupt, FileOf(DefaultDoc)}
  /\ bak = NoFile
  /\ mem = [i \in Insts |-> Load(file)]
  /\ th = [t \in Threads |-> IdleThread]
  /\ tmp = [t \in Threads |-> NoFile]
  /\ opsLeft = MaxOps
  /\ utc = 1
  /\ hist = {}
  /\ raisedCalls = {}
  /\ durable = {}
  /\ fault = FALSE

Call(t, kind, name) == [thread |-> t, kind |-> kind, name |-> name]
CurrentCall(t) == Call(t, th[t].kind, th[t].name)

\* A call enters save(backup): the backup step comes first when asked for.
EnterSave(t, kind, name, backup) ==
  th' = [th EXCEPT ![t] = [IdleThread EXCEPT
                             !.pc = IF backup THEN "backup" ELSE "ser_enter",
                             !.kind = kind, !.name = name]]

\* add_plug up to its call of save(): self.data["plugs"][name] = {"ip": ip}.
CfgAddPlug(t) ==
  /\ th[t].pc = "idle" /\ opsLeft > 0
  /\ UNCHANGED notConfig
  /\ \E n \in PlugNames, ip \in IPs :
       /\ mem' = [mem EXCEPT ![instOf[t]].plugs = Put(@, n, [ip |-> ip])]
       /\ EnterSave(t, "add_plug", n, TRUE)
       /\ hist' = hist \cup {Call(t, "add_plug", n)}
  /\ opsLeft' = opsLeft - 1
  /\ UNCHANGED <<instOf, file, bak, tmp, utc, raisedCalls, durable, fault>>

\* Faulty variant, for sensitivity: uptime_start is set whatever the value.
NewStateMut(online, t) ==
  [online |-> online, last_change |-> t, uptime_start |-> t]

\* Faulty variant, for sensitivity: every call counts as a change.
StateChangedMut(st, name, online) == TRUE

\* The state entry update_server_state records for a first observation or a
\* changed value.
NewState(online, t) ==
  [online |-> online, last_change |-> t,
   uptime_start |-> IF online THEN t ELSE None]

\* Whether update_server_state(name, online) sets state_changed.
StateChanged(st, name, online) ==
  name \notin DOMAIN st \/ st[name].online # online

\* update_server_state up to its call of save(backup=False), which it makes
\* only if the state changed.
CfgUpdateServerState(t) ==
  /\ th[t].pc = "idle" /\ opsLeft > 0
  /\ UNCHANGED notConfig
  /\ \E n \in ServerNames, online \in BOOLEAN :
       /\ hist' = hist \cup {Call(t, "update_server_state", n)}
       /\ IF StateChanged(mem[instOf[t]].state, n, online)
            THEN /\ mem' = [mem EXCEPT ![instOf[t]].state =
                                         Put(@, n, NewState(online, utc))]
                 /\ utc' = utc + 1
                 /\ EnterSave(t, "update_server_state", n, FALSE)
            ELSE UNCHANGED <<mem, utc, th>>
  /\ opsLeft' = opsLeft - 1
  /\ UNCHANGED <<instOf, file, bak, tmp, raisedCalls, durable, fault>>

\* reload(): self.data = self._load().  A json.dump in progress on this instance
\* keeps iterating the dict object it was given.
CfgReload(t) ==
  /\ th[t].pc = "idle" /\ opsLeft > 0
  /\ UNCHANGED notConfig
  /\ mem' = [mem EXCEPT ![instOf[t]] = Load(file)]
  /\ th' = [u \in Threads |->
              IF instOf[u] = instOf[t] /\ th[u].live
                   /\ th[u].pc \in {"ser"}
                THEN [th[u] EXCEPT !.live = FALSE, !.held = mem[instOf[t]]]
                ELSE th[u]]
  /\ hist' = hist \cup {Call(t, "reload", "none")}
  /\ opsLeft' = opsLeft - 1
  /\ UNCHANGED <<instOf, file, bak, tmp, utc, raisedCalls, durable, fault>>

\* save(): if backup and self.config_path.exists(): shutil.copy2(...), whose
\* failure is logged and ignored.
SaveBackup(t) ==
  /\ th[t].pc = "backup"
  /\ UNCHANGED notConfig
  /\ \/ bak' = (IF file.kind = "none" THEN bak ELSE file)
     \/ file.kind # "none" /\ UNCHANGED bak
  /\ th' = [th EXCEPT ![t].pc = "ser_enter"]
  /\ UNCHANGED <<instOf, file, mem, tmp, opsLeft, utc, hist, raisedCalls,
                 durable, fault>>

\* The dict object json.dump is iterating.
Dumped(t) == IF th[t].live THEN mem[instOf[t]] ELSE th[t].held

\* The file whose descriptor save() hands to fcntl.flock: the temporary file
\* that mkstemp created for this very call, never the config path.
LockedFile(t) == [entry |-> "tmp", owner |-> t]

\* A save is inside its locked write section from flock(LOCK_EX) to
\* flock(LOCK_UN): while json.dump, flush and fsync run.
HoldsExclusive(t) == th[t].pc = "ser"

\* fcntl.flock(f.fileno(), LOCK_EX) returns when no other open file holds a
\* lock on the same file; until then the caller waits.
FlockGranted(t) ==
  \A u \in Threads \ {t} :
    HoldsExclusive(u) => LockedFile(u) # LockedFile(t)

\* Faulty variant, for sensitivity: the document is written over the live file
\* in place.
SerEnterMut(t) ==
  /\ th[t].pc = "ser_enter"
  /\ FlockGranted(t)
  /\ UNCHANGED notConfig
  /\ file' = Corrupt
  /\ tmp' = [tmp EXCEPT ![t] = Corrupt]
  /\ th' = [th EXCEPT ![t].pc = "ser", ![t].sec = 1, ![t].live = TRUE,
                      ![t].win = mem[instOf[t]][Sections[1]]]
  /\ UNCHANGED <<instOf, bak, mem, opsLeft, utc, hist, raisedCalls,
                 durable, fault>>

\* save(): tempfile.mkstemp, flock(LOCK_EX) on the new file, then
\* json.dump(self.data, f, indent=2) begins: the pure-Python encoder (indent is
\* set) starts iterating the first section.
SerEnter(t) ==
  /\ th[t].pc = "ser_enter"
  /\ FlockGranted(t)
  /\ UNCHANGED notConfig
  /\ tmp' = [tmp EXCEPT ![t] = Corrupt]
  /\ th' = [th EXCEPT ![t].pc = "ser", ![t].sec = 1, ![t].live = TRUE,
                      ![t].win = mem[instOf[t]][Sections[1]]]
  /\ UNCHANGED <<instOf, file, bak, mem, opsLeft, utc, hist, raisedCalls,
                 durable, fault>>

\* A dict iterator raises "RuntimeError: dictionary changed size during
\* iteration" when the dict's size differs from the size at the start of the
\* iteration; an empty dict is written without iterating.
WindowRaises(win, cur) ==
  win # EmptyMap /\ Cardinality(DOMAIN cur) # Cardinality(DOMAIN win)

\* What the encoder wrote for a section whose iteration ended normally: each
\* item as it was when visited.
SectionOut(win, cur) ==
  IF DOMAIN cur = DOMAIN win THEN {win, cur} ELSE {win}

\* Faulty variant, for sensitivity: the temporary file is left behind.
SaveRaisesMut(t) ==
  /\ UNCHANGED tmp
  /\ th' = [th EXCEPT ![t] = IdleThread]
  /\ raisedCalls' = raisedCalls \cup {CurrentCall(t)}

\* save()'s except clause: os.unlink(temp_path); raise.
SaveRaises(t) ==
  /\ tmp' = [tmp EXCEPT ![t] = NoFile]
  /\ th' = [th EXCEPT ![t] = IdleThread]
  /\ raisedCalls' = raisedCalls \cup {CurrentCall(t)}

\* json.dump ends the iteration of one section and begins the next one; after
\* the last section it writes the settings, and f.flush() and os.fsync follow.
SerStep(t) ==
  /\ th[t].pc = "ser"
  /\ UNCHANGED notConfig
  /\ LET sec == Sections[th[t].sec]
         cur == Dumped(t)[sec]
     IN  IF WindowRaises(th[t].win, cur)
           THEN SaveRaises(t) /\ UNCHANGED fault
           ELSE \E out \in SectionOut(th[t].win, cur) :
                  LET acc == [th[t].acc EXCEPT ![sec] = out]
                  IN  IF th[t].sec < Len(Sections)
                        THEN /\ th' = [th EXCEPT
                                         ![t].acc = acc,
                                         ![t].sec = th[t].sec + 1,
                                         ![t].win =
                                           Dumped(t)[Sections[th[t].sec + 1]]]
                             /\ UNCHANGED <<tmp, raisedCalls, fault>>
                        ELSE \/ /\ tmp' = [tmp EXCEPT ![t] = FileOf(
                                            [acc EXCEPT !.price =
                                                          Dumped(t).price])]
                                /\ th' = [th EXCEPT ![t].pc = "rename",
                                                    ![t].acc = DefaultDoc,
                                                    ![t].win = EmptyMap,
                                                    ![t].sec = 0]
                                /\ UNCHANGED <<raisedCalls, fault>>
                             \/ SaveRaises(t) /\ fault' = TRUE
  /\ UNCHANGED <<instOf, file, bak, mem, opsLeft, utc, hist, durable>>

\* os.replace(temp_path, self.config_path); the call returns.
SaveRename(t) ==
  /\ th[t].pc = "rename"
  /\ UNCHANGED notConfig
  /\ file' = tmp[t]
  /\ tmp' = [tmp EXCEPT ![t] = NoFile]
  /\ durable' = IF th[t].kind = "add_plug"
                  THEN durable \cup {[plug |-> th[t].name, inst |-> instOf[t]]}
                  ELSE durable
  /\ th' = [th EXCEPT ![t] = IdleThread]
  /\ UNCHANGED <<instOf, bak, mem, opsLeft, utc, hist, raisedCalls, fault>>

ConfigNext ==
  \E t \in Threads :
    \/ CfgAddPlug(t)
    \/ CfgUpdateServerState(t)
    \/ CfgReload(t)
    \/ SaveBackup(t)
    \/ SerEnter(t)
    \/ SerStep(t)
    \/ SaveRename(t)

\* ---------------------------------------------------------- config claims
\* Every thread holds a Config instance of its own (the API's, the bot's).
SeparateInstances == \A t, u \in Threads : t # u => instOf[t] # instOf[u]

\* All threads call the one shared Config instance.
SharedInstance == \A t, u \in Threads : instOf[t] = instOf[u]

\* The plugs reload() reads from the durable file.
DurablePlugs == DOMAIN Load(file).plugs

\* C9: with two Config instances on the same file, a plug whose add_plug was
\* durably written (renamed over the file) by one instance stays in the durable
\* file whatever the other instance writes later.
C9_NoLostEditAcrossInstances ==
  SeparateInstances => \A d \in durable : d.plug \in DurablePlugs

\* C10: when the threads of one Config instance have called only add_plug, with
\* distinct names, and every call has finished, no call raised and reload()
\* from the durable file yields every added plug.
C10_ConcurrentAddPlug ==
  ( /\ SharedInstance
    /\ \A t \in Threads : th[t].pc = "idle"
    /\ \A c \in hist : c.kind = "add_plug"
    /\ \A c, d \in hist : c.name = d.name => c = d
    /\ ~fault )
  => /\ raisedCalls = {}
     /\ \A c \in hist : c.name \in DurablePlugs

\* C11: the live file changes only by the rename of a completely written
\* temporary file over it; at every step of a save before that rename (and so
\* after a crash at any of them) it still holds the previous document, and a
\* partially written document exists only in the temporary file.
C11_AtomicPersistence ==
  [][file' # file =>
       \E t \in Threads :
         /\ th[t].pc = "rename"
         /\ tmp[t].kind = "doc"
         /\ file' = tmp[t]]_vars

C11_Witness ==
  \E t \in Threads :
    /\ th[t].pc = "ser" /\ tmp[t] = Corrupt
    /\ file.kind = "doc" /\ durable # {}

C31_SavesExcludeEachOther ==
  \A t, u \in Threads : (HoldsExclusive(t) /\ HoldsExclusive(u)) => t = u

\* ----------------------------------------------------------- server state
(***************************************************************************)
(* SpecState: one Config used by one caller that calls                     *)
(* update_server_state(name, online) again and again, and remove_server    *)
(* and add_server in between, each call running to its end before the next *)
(* one begins.  Time passes between calls.  The save() of a call that       *)
(* changed the document either renames the new document over the file or   *)
(* raises and leaves the file alone.                                       *)
(***************************************************************************)
MaxCalls == 4

StateNames == {"s1", "s2"}

NoCall ==
  [kind |-> "none", name |-> "none", online |-> FALSE, time |-> 0,
   seenBefore |-> EmptyMap, docBefore |-> DefaultDoc, fileBefore |-> NoFile,
   saved |-> "none", life |-> "same"]

\* A document with one server and no state recorded for it yet.
OneServerDoc ==
  [DefaultDoc EXCEPT !.servers =
     Put(EmptyMap, "s1", [hostname |-> "h1", mac |-> "m1", plug |-> "p1"])]

StateInit ==
  /\ sfile \in {NoFile, Corrupt, FileOf(DefaultDoc), FileOf(OneServerDoc)}
  /\ sdoc = Load(sfile)
  /\ sclock = 1
  /\ sseen = EmptyMap
  /\ slast = NoCall
  /\ sleft = MaxCalls
  /\ slife = [n \in StateNames |-> "same"]

\* update_server_state(n, online), its save(backup=False) included; ok is
\* whether the write of the temporary file succeeds.
SeqUpdateServerState ==
  /\ sleft > 0
  /\ UNCHANGED notState
  /\ \E n \in StateNames, online \in BOOLEAN, ok \in BOOLEAN :
       LET before == sdoc.state
           changed == StateChanged(before, n, online)
           after == IF changed
                      THEN Put(before, n, NewState(online, sclock))
                      ELSE before
           doc == [sdoc EXCEPT !.state = after]
       IN  /\ sdoc' = doc
           /\ sfile' = IF changed /\ ok THEN FileOf(doc) ELSE sfile
           /\ sseen' = Put(sseen, n, online)
           /\ slast' = [kind |-> "update_server_state", name |-> n,
                        online |-> online, time |-> sclock,
                        seenBefore |-> sseen, docBefore |-> sdoc,
                        fileBefore |-> sfile,
                        saved |-> IF ~changed THEN "none"
                                  ELSE IF ok THEN "written" ELSE "raised",
                        life |-> slife[n]]
           /\ slife' = [slife EXCEPT ![n] = "same"]
  /\ sclock' = sclock + 1
  /\ sleft' = sleft - 1

\* The record of a remove_server or add_server call.
AdminCall(kind, n, saved) ==
  [kind |-> kind, name |-> n, online |-> FALSE, time |-> sclock,
   seenBefore |-> sseen, docBefore |-> sdoc, fileBefore |-> sfile,
   saved |-> saved, life |-> slife[n]]

\* Faulty variant, for sensitivity: the state entry goes with the server.
WithoutServerMut(doc, n) ==
  [doc EXCEPT !.servers = Del(@, n), !.state = Del(@, n)]

\* del self.data["servers"][name]
WithoutServer(doc, n) == [doc EXCEPT !.servers = Del(@, n)]

\* remove_server(n), its save() included: False and no save for a name that
\* is not configured.
SeqRemoveServer ==
  /\ sleft > 0
  /\ UNCHANGED notState
  /\ \E n \in StateNames, ok \in BOOLEAN :
       IF n \in DOMAIN sdoc.servers
         THEN /\ sdoc' = WithoutServer(sdoc, n)
              /\ sfile' = IF ok THEN FileOf(sdoc') ELSE sfile
              /\ slast' = AdminCall("remove_server", n,
                                    IF ok THEN "written" ELSE "raised")
              /\ slife' = [slife EXCEPT ![n] = "removed"]
         ELSE /\ ok
              /\ slast' = AdminCall("remove_server", n, "none")
              /\ UNCHANGED <<sdoc, sfile, slife>>
  /\ sclock' = sclock + 1
  /\ sleft' = sleft - 1
  /\ UNCHANGED sseen

\* add_server(n, hostname, mac, plug), its save() included.
SeqAddServer ==
  /\ sleft > 0
  /\ UNCHANGED notState
  /\ \E n \in StateNames, ok \in BOOLEAN :
       /\ sdoc' = [sdoc EXCEPT !.servers =
                     Put(@, n, [hostname |-> "h1", mac |-> "m1",
                                plug |-> "p1"])]
       /\ sfile' = IF ok THEN FileOf(sdoc') ELSE sfile
       /\ slast' = AdminCall("add_server", n,
                             IF ok THEN "written" ELSE "raised")
       /\ slife' = [slife EXCEPT
                      ![n] = IF @ = "removed" THEN "back" ELSE @]
  /\ sclock' = sclock + 1
  /\ sleft' = sleft - 1
  /\ UNCHANGED sseen

StateNext ==
  \/ SeqUpdateServerState
  \/ SeqRemoveServer
  \/ SeqAddServer

\* C12: a call of update_server_state saves if and only if it is the first
\* call for its name or passes a value other than the previous call for that
\* name passed; a save that does not raise renames the new document over the
\* file, and a call repeating the value leaves the file and self.data as they
\* were.
C12_WritesOnlyOnChange ==
  slast.kind = "update_server_state" =>
    LET first == slast.name \notin DOMAIN slast.seenBefore
        differs == /\ ~first
                   /\ slast.seenBefore[slast.name] # slast.online
    IN  /\ (slast.saved # "none") <=> (first \/ differs)
        /\ slast.saved = "written" =>
             sfile = FileOf(sdoc) /\ sfile # slast.fileBefore
        /\ slast.saved = "raised" => sfile = slast.fileBefore
        /\ slast.saved = "none" =>
             sfile = slast.fileBefore /\ sdoc = slast.docBefore

C12_Witness ==
  /\ slast.kind = "update_server_state"
  /\ slast.name \in DOMAIN slast.seenBefore
  /\ slast.seenBefore[slast.name] = slast.online
  /\ slast.saved = "none"
  /\ slast.name \in DOMAIN Load(sfile).state
  /\ sfile = FileOf(sdoc)

\* A state entry whose uptime_start is set exactly when it is online.
ValidEntry(e) == (e.uptime_start # None) <=> e.online

\* C13: in self.data and in the file every state entry has uptime_start set
\* exactly when online is true; a call that finds the server changed from
\* offline to online sets uptime_start (and last_change) to the time of the
\* call, one that finds it changed from online to offline clears uptime_start,
\* and a call that finds the recorded value leaves the entry, its last_change
\* included, as it was; the entries of other servers are not touched.
C13_UptimeTracksOnline ==
  /\ \A n \in DOMAIN sdoc.state : ValidEntry(sdoc.state[n])
  /\ \A n \in DOMAIN Load(sfile).state : ValidEntry(Load(sfile).state[n])
  /\ slast.kind = "update_server_state" =>
       LET n == slast.name
           b == slast.docBefore.state
           a == sdoc.state
       IN  /\ DOMAIN a = DOMAIN b \cup {n}
           /\ \A m \in DOMAIN b \ {n} : a[m] = b[m]
           /\ a[n].online = slast.online
           /\ n \notin DOMAIN b => a[n].last_change = slast.time
           /\ n \in DOMAIN b =>
                /\ (~b[n].online /\ slast.online) =>
                     /\ a[n].uptime_start = slast.time
                     /\ a[n].last_change = slast.time
                /\ (b[n].online /\ ~slast.online) =>
                     /\ a[n].uptime_start = None
                     /\ a[n].last_change = slast.time
                /\ b[n].online = slast.online => a[n] = b[n]

C13_Witness ==
  /\ slast.kind = "update_server_state"
  /\ slast.name \in DOMAIN slast.docBefore.state
  /\ ~slast.docBefore.state[slast.name].online
  /\ slast.online
  /\ slast.time >= 3
  /\ sdoc.state[slast.name].uptime_start = slast.time
  /\ sfile = FileOf(sdoc)

\* C39: remove_server deletes the server record of its name and nothing else:
\* the liveness-state entries, that of the removed name included, the other
\* servers and the file of a failed save are as before; add_server leaves the
\* state entries alone too; and the first update_server_state after a server
\* was removed and added again, when it passes the value recorded before the
\* removal, calls save() no more and leaves the entry with its old
\* last_change.
C39_StateOutlivesServer ==
  /\ slast.kind = "remove_server" =>
       /\ sdoc.state = slast.docBefore.state
       /\ sdoc.plugs = slast.docBefore.plugs
       /\ DOMAIN sdoc.servers = DOMAIN slast.docBefore.servers \ {slast.name}
       /\ \A m \in DOMAIN sdoc.servers :
            sdoc.servers[m] = slast.docBefore.servers[m]
       /\ slast.saved = "written" => sfile = FileOf(sdoc)
       /\ slast.saved # "written" => sfile = slast.fileBefore
  /\ slast.kind = "add_server" => sdoc.state = slast.docBefore.state
  /\ (/\ slast.kind = "update_server_state"
      /\ slast.life = "back"
      /\ slast.name \in DOMAIN slast.seenBefore
      /\ slast.seenBefore[slast.name] = slast.online) =>
       /\ slast.saved = "none"
       /\ sfile = slast.fileBefore
       /\ sdoc = slast.docBefore
       /\ slast.name \in DOMAIN sdoc.state
       /\ sdoc.state[slast.name].online = slast.online
       /\ sdoc.state[slast.name].last_change < slast.time - 2

C39_Witness ==
  /\ slast.kind = "update_server_state" /\ slast.life = "back"
  /\ slast.name = "s1" /\ slast.online /\ slast.saved = "none"
  /\ slast.time = 4
  /\ "s1" \in DOMAIN sdoc.servers
  /\ sdoc.state["s1"].last_change = 1
  /\ sdoc.state["s1"].online

\* ---------------------------------------------------------------- stream
(***************************************************************************)
(* SpecStream: event_generator of /power/on and /power/off                 *)
(* (src/server/main.py).  The generator creates log_queue and a task that  *)
(* runs the power operation, then loops on log_queue.get().  Task,         *)
(* generator and the scheduled put coroutines share one event loop: while  *)
(* the task runs (between two of its suspensions) nothing else does.       *)
(* log(msg) appends to result["logs"] and hands log_queue.put(msg) to      *)
(* run_coroutine_threadsafe, which only schedules it: the put itself runs  *)
(* in a later iteration of the loop.  An await of the operation (outlet    *)
(* call, sleep) suspends the task for longer than the loop needs to run    *)
(* the puts scheduled before it.  The operation is any sequence of log()   *)
(* calls and awaits that power_on / power_off can make, ended by its       *)
(* return or by an exception; both operations await an outlet call before  *)
(* anything can end them other than that call raising.                     *)
(***************************************************************************)
MaxLogs == 3
MaxAwaits == 2

LogMsg(n) == [type |-> "log", n |-> n]
Complete == [type |-> "complete", n |-> 0]
ErrorMsg == [type |-> "error", n |-> 0]

StreamInit ==
  /\ sop \in {"on", "off"}
  /\ ppc = "run" /\ awaiting = "none"
  /\ nlogs = 0 /\ nawaits = 0 /\ offIssued = FALSE
  /\ pend = <<>> /\ queue = <<>> /\ delivered = <<>>
  /\ cpc = "loop" /\ keptAlive = FALSE

\* Faulty variant, for sensitivity: a queue of one slot.
QueueFullMut(q) == Len(q) >= 1

\* log_queue.full(): asyncio.Queue() has no maxsize.
QueueFull(q) == FALSE

\* Faulty variant, for sensitivity: only the complete message ends the loop.
BreaksMut(msg) == msg.type = "complete"

\* The messages at which event_generator breaks out of its loop.
Breaks(msg) == msg.type \in {"complete", "error"}

\* log(msg): result["logs"].append(msg); progress_callback(msg).
ProdLog ==
  /\ ppc = "run" /\ nlogs < MaxLogs
  /\ UNCHANGED notStream
  /\ nlogs' = nlogs + 1
  /\ pend' = Append(pend, LogMsg(nlogs + 1))
  /\ UNCHANGED <<sop, ppc, awaiting, nawaits, offIssued, queue, delivered,
                 cpc, keptAlive>>

\* The operation awaits an outlet call or a sleep, before its final turn_off.
ProdAwait ==
  /\ ppc = "run" /\ ~offIssued /\ nawaits < MaxAwaits
  /\ UNCHANGED notStream
  /\ ppc' = "wait" /\ awaiting' = "io"
  /\ nawaits' = nawaits + 1
  /\ UNCHANGED <<sop, nlogs, offIssued, pend, queue, delivered, cpc,
                 keptAlive>>

\* await self.plug_service.turn_off(plug_ip): the last await of power_off and
\* of a power_on that failed to boot the machine.
ProdTurnOff ==
  /\ ppc = "run" /\ ~offIssued /\ nawaits >= 1
  /\ UNCHANGED notStream
  /\ ppc' = "wait" /\ awaiting' = "TurnOff"
  /\ offIssued' = TRUE
  /\ UNCHANGED <<sop, nlogs, nawaits, pend, queue, delivered, cpc, keptAlive>>

\* The awaited call returns and the task runs on.
ProdResume ==
  /\ ppc = "wait" /\ pend = <<>>
  /\ UNCHANGED notStream
  /\ ppc' = "run" /\ awaiting' = "none"
  /\ UNCHANGED <<sop, nlogs, nawaits, offIssued, pend, queue, delivered, cpc,
                 keptAlive>>

\* The operation raises, out of an await or (power_on) out of send_wol, and
\* the except clause puts the error message.
ProdRaise ==
  /\ \/ ppc = "wait" /\ pend = <<>>
     \/ ppc = "run" /\ sop = "on" /\ ~offIssued /\ nawaits >= 1
  /\ ~QueueFull(queue)
  /\ UNCHANGED notStream
  /\ queue' = Append(queue, ErrorMsg)
  /\ ppc' = "done" /\ awaiting' = "none"
  /\ UNCHANGED <<sop, nlogs, nawaits, offIssued, pend, delivered, cpc,
                 keptAlive>>

\* The operation returns its result and the task puts the complete message;
\* power_off returns only after its turn_off.
ProdReturn ==
  /\ ppc = "run" /\ nawaits >= 1 /\ (sop = "off" => offIssued)
  /\ ~QueueFull(queue)
  /\ UNCHANGED notStream
  /\ queue' = Append(queue, Complete)
  /\ ppc' = "done"
  /\ UNCHANGED <<sop, awaiting, nlogs, nawaits, offIssued, pend, delivered,
                 cpc, keptAlive>>

\* The event loop runs the oldest scheduled log_queue.put(msg).
LoopPut ==
  /\ ppc # "run" /\ pend # <<>>
  /\ ~QueueFull(queue)
  /\ UNCHANGED notStream
  /\ queue' = Append(queue, Head(pend))
  /\ pend' = Tail(pend)
  /\ UNCHANGED <<sop, ppc, awaiting, nlogs, nawaits, offIssued, delivered,
                 cpc, keptAlive>>

\* event_generator gets a message and yields its event; it breaks at a
\* terminal message.
Consume ==
  /\ cpc = "loop" /\ ppc # "run" /\ queue # <<>>
  /\ UNCHANGED notStream
  /\ delivered' = Append(delivered, Head(queue))
  /\ queue' = Tail(queue)
  /\ cpc' = IF Breaks(Head(queue)) THEN "await_task" ELSE "loop"
  /\ UNCHANGED <<sop, ppc, awaiting, nlogs, nawaits, offIssued, pend,
                 keptAlive>>

\* asyncio.TimeoutError after 0.5 s without a message: a keepalive comment.
Keepalive ==
  /\ cpc = "loop" /\ ppc # "run" /\ queue = <<>>
  /\ UNCHANGED notStream
  /\ keptAlive' = TRUE
  /\ UNCHANGED <<sop, ppc, awaiting, nlogs, nawaits, offIssued, pend, queue,
                 delivered, cpc>>

\* await task, after the loop.
ConsumerClose ==
  /\ cpc = "await_task" /\ ppc = "done"
  /\ UNCHANGED notStream
  /\ cpc' = "closed"
  /\ UNCHANGED <<sop, ppc, awaiting, nlogs, nawaits, offIssued, pend, queue,
                 delivered, keptAlive>>

\* The client disconnects and the generator is closed inside its loop.
Disconnect ==
  /\ cpc = "loop"
  /\ UNCHANGED notStream
  /\ cpc' = "gone"
  /\ UNCHANGED <<sop, ppc, awaiting, nlogs, nawaits, offIssued, pend, queue,
                 delivered, keptAlive>>

ProdStep ==
  \/ ProdLog
  \/ ProdAwait
  \/ ProdTurnOff
  \/ ProdResume
  \/ ProdRaise
  \/ ProdReturn

StreamNext ==
  \/ ProdStep
  \/ LoopPut
  \/ Consume
  \/ Keepalive
  \/ ConsumerClose
  \/ Disconnect

\* The entries of result["logs"], in the order log() was called.
Emitted == [i \in 1..nlogs |-> LogMsg(i)]

LogsOf(s) == SelectSeq(s, LAMBDA m : m.type = "log")
Terminals(s) == SelectSeq(s, LAMBDA m : m.type # "log")

\* C15: once event_generator has yielded the terminal event, the log events it
\* yielded before it are all the log lines the operation emitted, in emission
\* order.
C15_AllLogsBeforeTerminal ==
  cpc \in {"await_task", "closed"} => LogsOf(delivered) = Emitted

\* One terminal message at most, put when the task ends; the terminal event is
\* the last one yielded, and the generator has left its loop exactly when it
\* has yielded it.
OneTerminalLast ==
  /\ Len(Terminals(queue \o delivered)) = (IF ppc = "done" THEN 1 ELSE 0)
  /\ \A i \in 1..Len(delivered) :
       delivered[i].type # "log" => i = Len(delivered)
  /\ cpc \in {"await_task", "closed"} <=>
       (delivered # <<>> /\ Last(delivered).type # "log")

\* C16: each operation puts exactly one terminal message (complete or error)
\* when it ends and none before; the generator yields nothing after the
\* terminal event; and once the operation has ended, a generator whose client
\* stays connected yields the terminal event and ends.
C16_ExactlyOneTerminal ==
  /\ []OneTerminalLast
  /\ (ppc = "done") ~> (cpc \in {"closed", "gone"})

C16_Witness ==
  /\ cpc = "closed" /\ Len(delivered) >= 2
  /\ Last(delivered) = ErrorMsg
  /\ keptAlive

\* C17: the task never waits for room in the queue or for the generator: while
\* it runs it always has a step to take, and after the client has gone away it
\* still reaches its end, a power_off that returns having called its final
\* turn_off.
C17_OperationOutlivesConsumer ==
  /\ [](ppc = "run" => ENABLED ProdStep)
  /\ (cpc = "gone") ~> (ppc = "done")
  /\ []((cpc = "gone" /\ ppc = "done" /\ sop = "off"
           /\ Terminals(queue) = <<Complete>>) => offIssued)

C17_Witness ==
  /\ cpc = "gone" /\ delivered = <<>>
  /\ ppc = "done" /\ offIssued
  /\ Len(queue) >= 2 /\ Last(queue) = Complete

\* ------------------------------------------------------------------ race
(***************************************************************************)
(* SpecRace: two requests, each /power/on or /power/off, for the same      *)
(* server and so for the same outlet.  A handler validates the request     *)
(* against the configuration and starts the operation; the operations are  *)
(* coroutines of one PowerControlService, which keeps no state of its own, *)
(* and interleave at their awaits.                                         *)
(***************************************************************************)
Reqs == {"r1", "r2"}

Event(r, what) == [req |-> r, what |-> what]

InFlight(r) == rpc[r] \in {"admitted", "monitor"}

RaceInit ==
  /\ rvalid \in BOOLEAN
  /\ rkind \in [Reqs -> {"on", "off"}]
  /\ rpc = [r \in Reqs |-> "new"]
  /\ events = <<>>

\* Faulty variant, for sensitivity: one operation per server at a time.
BusyMut(r) == \E o \in Reqs \ {r} : InFlight(o)

\* Whether a handler finds the server taken by another operation: the handlers
\* and PowerControlService hold no lock and keep no record of operations.
Busy(r) == FALSE

\* power_on_server / power_off_server up to the start of the operation: 404 or
\* 400 for a server that is not configured for it.
Handle(r) ==
  /\ rpc[r] = "new"
  /\ UNCHANGED notRace
  /\ IF rvalid /\ ~Busy(r)
       THEN /\ rpc' = [rpc EXCEPT ![r] = "admitted"]
            /\ events' = Append(events, Event(r, "admit"))
       ELSE /\ rpc' = [rpc EXCEPT ![r] = "rejected"]
            /\ UNCHANGED events
  /\ UNCHANGED <<rvalid, rkind>>

\* The operation's first command: turn_on (power_on), shutdown (power_off); a
\* turn_on that raises ends the power_on.
OpFirst(r) ==
  /\ rpc[r] = "admitted"
  /\ UNCHANGED notRace
  /\ events' = Append(events, Event(r, IF rkind[r] = "on" THEN "TurnOn"
                                                         ELSE "Shutdown"))
  /\ \/ rpc' = [rpc EXCEPT ![r] = "monitor"]
     \/ rkind[r] = "on" /\ rpc' = [rpc EXCEPT ![r] = "done"]
  /\ UNCHANGED <<rvalid, rkind>>

\* The end of the operation's monitoring: power_off turns the outlet off, and
\* so does a power_on whose machine did not boot; a power_on whose machine
\* answered, or drew power without answering, leaves the outlet on.
OpEnd(r) ==
  /\ rpc[r] = "monitor"
  /\ UNCHANGED notRace
  /\ \/ events' = Append(events, Event(r, "TurnOff"))
     \/ rkind[r] = "on" /\ UNCHANGED events
  /\ rpc' = [rpc EXCEPT ![r] = "done"]
  /\ UNCHANGED <<rvalid, rkind>>

RaceStep(r) == Handle(r) \/ OpFirst(r) \/ OpEnd(r)

RaceNext ==
  \E r \in Reqs :
    \/ Handle(r)
    \/ OpFirst(r)
    \/ OpEnd(r)

\* C18: a request for a configured server is never rejected, and whatever the
\* other request is doing, a request that has not ended always has its next
\* step to take: it is started while the other operation is in flight, and
\* when both operations are about to command the outlet either command can
\* come first.
C18_NoMutualExclusion ==
  rvalid =>
    /\ \A r \in Reqs : rpc[r] # "rejected"
    /\ \A r \in Reqs : rpc[r] # "done" => ENABLED RaceStep(r)

C18_Witness ==
  /\ rkind = [r \in Reqs |-> IF r = "r1" THEN "on" ELSE "off"]
  /\ InFlight("r1") /\ rpc["r2"] = "done"
  /\ events = <<Event("r1", "admit"), Event("r2", "admit"),
                Event("r2", "Shutdown"), Event("r2", "TurnOff"),
                Event("r1", "TurnOn")>>

\* ---------------------------------------------------------------- status
(***************************************************************************)
(* SpecStatus: one call of StatusService.get_all_status                    *)
(* (src/server/status_service.py) for a configuration of up to two plugs   *)
(* and two servers, each server with no plug, a configured plug or a plug  *)
(* name that is not configured, against outlets and hosts that answer or   *)
(* not.  Absent keys of the result dicts are the values "absent" and None. *)
(***************************************************************************)
StatusPlugs == <<"p1", "p2">>
StatusServers == <<"s1", "s2">>
PlugRefs == {"none", "p1", "p2"}
Answers == {"on", "off", "unreachable", "garbled"}

Range(s) == {s[i] : i \in DOMAIN s}
Hostname(n) == [s1 |-> "h1", s2 |-> "h2"][n]

\* The configured plugs and servers in the order of the config dicts.
PlugOrder == SelectSeq(StatusPlugs, LAMBDA n : n \in tplugs)
ServerOrder == SelectSeq(StatusServers, LAMBDA n : n \in DOMAIN tservers)

NoSummary ==
  [servers_online |-> 0, servers_total |-> 0, plugs_online |-> 0,
   plugs_on |-> 0, plugs_total |-> 0, total_power |-> 0]

StatusInit ==
  /\ tplugs \in SUBSET Range(StatusPlugs)
  /\ \E names \in SUBSET Range(StatusServers) :
       tservers \in [names -> [hostname : {"h1", "h2"}, plug : PlugRefs]]
  /\ \A n \in DOMAIN tservers : tservers[n].hostname = Hostname(n)
  /\ tanswer \in [Range(StatusPlugs) -> Answers]
  /\ tup \in SUBSET Range(StatusServers)
  /\ tdisk \in BOOLEAN
  /\ tstate \in {EmptyMap, Put(EmptyMap, "s1", NewState(TRUE, 0))}
  /\ tpc = "plugs" /\ tidx = 1
  /\ tplugsOut = <<>> /\ tserversOut = <<>>
  /\ tsummary = NoSummary
  /\ tagain = TRUE

\* PlugService.get_full_status: the readings, or the all-zero "offline" dict
\* when a call fails or times out; it does not raise.
GetFullStatus(ans) ==
  CASE ans = "on" -> [on |-> TRUE, current_power |-> MaxWatts]
    [] ans = "off" -> [on |-> FALSE, current_power |-> 0]
    [] ans = "unreachable" -> [on |-> FALSE, current_power |-> 0]
    [] ans = "garbled" -> [on |-> TRUE, current_power |-> None]

\* Whether the arithmetic and rounding on a status dict raise.
Unusable(status) == status.current_power = None

\* StatusService.get_plug_status: the entry built from get_full_status, or the
\* error entry of its except clause.
GetPlugStatus(name, ans) ==
  LET status == GetFullStatus(ans)
  IN  IF Unusable(status)
        THEN [name |-> name, online |-> FALSE, state |-> "absent",
              current_power |-> None, error |-> TRUE]
        ELSE [name |-> name, online |-> TRUE,
              state |-> IF status.on THEN "on" ELSE "off",
              current_power |-> status.current_power, error |-> FALSE]

\* get_all_status: one iteration of the loop over the plugs.
StatusPlug ==
  /\ tpc = "plugs" /\ tidx <= Len(PlugOrder)
  /\ UNCHANGED notStatus
  /\ tplugsOut' = Append(tplugsOut,
                         GetPlugStatus(PlugOrder[tidx], tanswer[PlugOrder[tidx]]))
  /\ tidx' = tidx + 1
  /\ UNCHANGED <<tagain, tplugs, tservers, tanswer, tup, tdisk, tstate, tpc,
                 tserversOut, tsummary>>

\* get_all_status: the loop over the plugs ends.
StatusPlugsDone ==
  /\ tpc = "plugs" /\ tidx > Len(PlugOrder)
  /\ UNCHANGED notStatus
  /\ tpc' = "servers" /\ tidx' = 1
  /\ UNCHANGED <<tagain, tplugs, tservers, tanswer, tup, tdisk, tstate, tplugsOut,
                 tserversOut, tsummary>>

\* Faulty variant, for sensitivity: a failure while embedding the plug's power
\* leaves get_server_status.
SwallowedMut(status) == FALSE

\* get_server_status wraps the embedding of the plug's power in try/except
\* Exception and only logs a warning.
Swallowed(status) == TRUE

\* The "power" key of a server entry: absent for a server without plug, with a
\* plug name that is not configured, or whose embedding raised.
ServerPower(ref) ==
  IF ref = "none" \/ ref \notin tplugs
    THEN None
    ELSE GetFullStatus(tanswer[ref]).current_power

\* Whether get_server_status for a server with this plug raises.
EmbedRaises(ref) ==
  /\ ref # "none" /\ ref \in tplugs
  /\ Unusable(GetFullStatus(tanswer[ref]))
  /\ ~Swallowed(GetFullStatus(tanswer[ref]))

\* An absent "uptime" or "downtime" key.
NoDuration == <<>>

\* StatusService._format_duration for a start time and the current time in
\* seconds: the days, hours and minutes of the difference, of which the string
\* shows the parts that are not zero ("0m" when all are).
FormatDuration(start, t) ==
  LET delta == t - start
      seconds == delta % 86400
  IN  <<delta \div 86400, seconds \div 3600, (seconds % 3600) \div 60>>

\* Faulty variant, for sensitivity: the duration is always labeled uptime.
DurationKeyMut(online) == "uptime"

\* The key under which get_server_status stores the duration.
DurationKey(online) == IF online THEN "uptime" ELSE "downtime"

\* The duration get_server_status stores under a key: present under the key of
\* the ping's answer when the state entry exists and has a last_change.
DurationAt(key, st, n, online) ==
  IF n \in DOMAIN st /\ st[n].last_change # None /\ DurationKey(online) = key
    THEN FormatDuration(st[n].last_change, 1)
    ELSE NoDuration

\* get_all_status: one iteration of the loop over the servers, that is
\* get_server_status: ping, update_server_state (which saves when the state
\* changed, and raises when the save does), and the entry.
StatusServer ==
  /\ tpc = "servers" /\ tidx <= Len(ServerOrder)
  /\ UNCHANGED notStatus
  /\ LET n == ServerOrder[tidx]
         online == n \in tup
         changed == StateChanged(tstate, n, online)
         ref == tservers[n].plug
     IN  /\ tstate' = IF changed THEN Put(tstate, n, NewState(online, 1))
                                 ELSE tstate
         /\ IF (changed /\ ~tdisk) \/ EmbedRaises(ref)
              THEN /\ tpc' = "raised"
                   /\ UNCHANGED <<tidx, tserversOut>>
              ELSE /\ tserversOut' = Append(tserversOut,
                          [name |-> n, hostname |-> tservers[n].hostname,
                           plug |-> ref, online |-> online,
                           uptime |-> DurationAt("uptime", tstate', n, online),
                           downtime |->
                             DurationAt("downtime", tstate', n, online),
                           power |-> ServerPower(ref)])
                   /\ tidx' = tidx + 1
                   /\ UNCHANGED tpc
  /\ UNCHANGED <<tagain, tplugs, tservers, tanswer, tup, tdisk, tplugsOut, tsummary>>

\* get_all_status: the loop over the servers ends.
StatusServersDone ==
  /\ tpc = "servers" /\ tidx > Len(ServerOrder)
  /\ UNCHANGED notStatus
  /\ tpc' = "summary"
  /\ UNCHANGED <<tagain, tplugs, tservers, tanswer, tup, tdisk, tstate, tidx,
                 tplugsOut, tserversOut, tsummary>>

RECURSIVE SumPower(_)
SumPower(s) ==
  IF s = <<>> THEN 0
  ELSE (IF Head(s).current_power = None THEN 0 ELSE Head(s).current_power)
       + SumPower(Tail(s))

\* Faulty variant, for sensitivity: the summary of an earlier call is kept.
SummaryOfMut(plugsOut, serversOut) ==
  IF tsummary # NoSummary
    THEN tsummary
    ELSE [servers_online |-> Len(SelectSeq(serversOut, LAMBDA e : e.online)),
          servers_total |-> Len(serversOut),
          plugs_online |-> Len(SelectSeq(plugsOut, LAMBDA e : e.online)),
          plugs_on |-> Len(SelectSeq(plugsOut, LAMBDA e : e.state = "on")),
          plugs_total |-> Len(plugsOut),
          total_power |-> SumPower(plugsOut)]

\* The summary dict computed from the two local lists.
SummaryOf(plugsOut, serversOut) ==
  [servers_online |-> Len(SelectSeq(serversOut, LAMBDA e : e.online)),
   servers_total |-> Len(serversOut),
   plugs_online |-> Len(SelectSeq(plugsOut, LAMBDA e : e.online)),
   plugs_on |-> Len(SelectSeq(plugsOut, LAMBDA e : e.state = "on")),
   plugs_total |-> Len(plugsOut),
   total_power |-> SumPower(plugsOut)]

\* get_all_status: the summary, and the return.
StatusSummary ==
  /\ tpc = "summary"
  /\ UNCHANGED notStatus
  /\ tsummary' = SummaryOf(tplugsOut, tserversOut)
  /\ tpc' = "done"
  /\ UNCHANGED <<tagain, tplugs, tservers, tanswer, tup, tdisk, tstate, tidx,
                 tplugsOut, tserversOut>>

\* Outlets and hosts between two calls: as before, or one outlet answers
\* differently, or one host's answer to the ping changed.
ChangedBy(a, u) ==
  Cardinality({n \in Range(StatusPlugs) : a[n] # tanswer[n]})
    + Cardinality((u \ tup) \cup (tup \ u))

\* get_all_status is called again: fresh local lists; the caller still holds
\* the summary of the call before.
StatusAgain ==
  /\ tpc \in {"done", "raised"} /\ tagain
  /\ UNCHANGED notStatus
  /\ tagain' = FALSE
  /\ \E a \in [Range(StatusPlugs) -> Answers],
        u \in SUBSET Range(StatusServers) :
       /\ ChangedBy(a, u) <= 1
       /\ tanswer' = a
       /\ tup' = u
  /\ tpc' = "plugs" /\ tidx' = 1
  /\ tplugsOut' = <<>> /\ tserversOut' = <<>>
  /\ UNCHANGED <<tplugs, tservers, tdisk, tstate, tsummary>>

StatusNext ==
  \/ StatusAgain
  \/ StatusPlug
  \/ StatusPlugsDone
  \/ StatusServer
  \/ StatusServersDone
  \/ StatusSummary

\* C19: the entry of every plug whose outlet calls fail or time out has
\* online = false and carries the error, and the summary's plugs_online counts
\* no such plug.
C19_FailingPlugOffline ==
  /\ \A i \in DOMAIN tplugsOut :
       tanswer[tplugsOut[i].name] = "unreachable" =>
         ~tplugsOut[i].online /\ tplugsOut[i].error
  /\ tpc = "done" =>
       tsummary.plugs_online <=
         Cardinality({n \in tplugs : tanswer[n] # "unreachable"})

\* C20: whatever outlets and hosts do not answer and whatever plug names of
\* servers are not configured, get_all_status returns (it raises only when a
\* write of the config file fails), with one entry per configured plug and one
\* per configured server, in order, each server entry with its name, its
\* hostname and the ping's answer, whether or not a power reading was embedded.
C20_StatusNeverFailsOutright ==
  /\ tpc = "raised" => ~tdisk
  /\ tpc = "done" =>
       /\ [i \in DOMAIN tplugsOut |-> tplugsOut[i].name] = PlugOrder
       /\ [i \in DOMAIN tserversOut |-> tserversOut[i].name] = ServerOrder
       /\ \A i \in DOMAIN tserversOut :
            /\ tserversOut[i].hostname = Hostname(tserversOut[i].name)
            /\ tserversOut[i].online = (tserversOut[i].name \in tup)
       /\ tsummary.servers_total = Len(ServerOrder)
       /\ tsummary.plugs_total = Len(PlugOrder)

C20_Witness ==
  /\ tpc = "done"
  /\ tplugs = {"p1"} /\ tanswer["p1"] = "garbled"
  /\ DOMAIN tservers = {"s1", "s2"}
  /\ tservers["s1"].plug = "p1" /\ tservers["s2"].plug = "p2"
  /\ tup = {}
  /\ Len(tserversOut) = 2 /\ Len(tplugsOut) = 1
  /\ \A i \in DOMAIN tserversOut : tserversOut[i].power = None

\* C33: every entry get_server_status returned carries the ping's answer and
\* exactly one of uptime and downtime, uptime if and only if the answer was
\* online, formatted from the stored last_change; the stored state of that
\* server has the returned online value, and so has the state of the server
\* whose update_server_state raised in save().
C33_ServerStatusRecordsPing ==
  /\ \A i \in DOMAIN tserversOut :
       LET ent == tserversOut[i]
       IN  /\ ent.online = (ent.name \in tup)
           /\ (ent.uptime # NoDuration) = ent.online
           /\ (ent.downtime # NoDuration) = ~ent.online
           /\ ent.name \in DOMAIN tstate
           /\ tstate[ent.name].online = ent.online
           /\ FormatDuration(tstate[ent.name].last_change, 1)
                \in {ent.uptime, ent.downtime}
  /\ tpc = "raised" =>
       /\ ServerOrder[tidx] \in DOMAIN tstate
       /\ tstate[ServerOrder[tidx]].online = (ServerOrder[tidx] \in tup)

C33_Witness ==
  /\ tpc = "done" /\ Len(tserversOut) = 2 /\ tup = {"s2"}
  /\ tserversOut[1].name = "s1" /\ tserversOut[1].downtime # NoDuration
  /\ tserversOut[2].uptime # NoDuration
  /\ ~tstate["s1"].online /\ tstate["s2"].online

\* The entries of a list that satisfy a condition, counted by position.
HowMany(out, Test(_)) == Cardinality({i \in DOMAIN out : Test(out[i])})

\* C34: the summary of every returned snapshot, of a first call and of a
\* second one after the outlets or hosts changed, is derived from the entries
\* of that call: the totals are the numbers of entries, servers_online counts
\* the online server entries, plugs_online the online plug entries, plugs_on
\* the plug entries in state on, plugs_on <= plugs_online <= plugs_total, and
\* total_power is the sum of the current power of the plug entries that have
\* one.
C34_SummaryDerived ==
  tpc = "done" =>
    /\ tsummary.servers_total = Len(tserversOut)
    /\ tsummary.plugs_total = Len(tplugsOut)
    /\ Len(tserversOut) = Len(ServerOrder)
    /\ Len(tplugsOut) = Len(PlugOrder)
    /\ tsummary.servers_online = HowMany(tserversOut, LAMBDA e : e.name \in tup)
    /\ tsummary.plugs_online = HowMany(tplugsOut, LAMBDA e : ~e.error)
    /\ tsummary.plugs_on =
         HowMany(tplugsOut, LAMBDA e : tanswer[e.name] = "on")
    /\ tsummary.plugs_on <= tsummary.plugs_online
    /\ tsummary.plugs_online <= tsummary.plugs_total
    /\ tsummary.total_power =
         MaxWatts * HowMany(tplugsOut, LAMBDA e : e.current_power = MaxWatts)

C34_Witness ==
  /\ tpc = "done" /\ ~tagain
  /\ tplugs = {"p1", "p2"} /\ tanswer["p1"] = "on" /\ tanswer["p2"] = "off"
  /\ tsummary.plugs_on = 1 /\ tsummary.plugs_online = 2
  /\ tsummary.total_power = MaxWatts
  /\ DOMAIN tservers = {"s1", "s2"} /\ tup = {"s1"}
  /\ tsummary.servers_online = 1

\* ----------------------------------------------------------------- store
(***************************************************************************)
(* SpecStore: one Config (src/server/config.py) whose operations run one   *)
(* after another, each to its end: the mutators, update_server_state and   *)
(* reload.  A save() is taken whole: the backup copy, which may fail and   *)
(* is then skipped, and the write of the temporary file and its rename,    *)
(* which either replace the config file or raise and leave it alone.       *)
(* Between two calls the file may be damaged from outside (truncated,      *)
(* emptied, made unreadable).                                              *)
(***************************************************************************)
MaxEdits == 2

StorePlugs == {"p1", "p2"}
StoreServers == {"s1", "s2"}
StoreIPs == {"ip1", "ip2"}

\* Python's None where a str is optional (mac, plug, hostname arguments).
NoneStr == "none"
Macs == {NoneStr, "", "m1"}
Plugs == {NoneStr, "p1"}

\* A file that exists and holds nothing, and files that hold a prefix of the
\* serialization of d or may not be opened.
Empty == [kind |-> "empty", doc |-> DefaultDoc]
Truncated(d) == [kind |-> "corrupt", doc |-> d]
Unreadable(d) == [kind |-> "unreadable", doc |-> d]

\* A document written by earlier runs of the server.
SeedDoc ==
  [plugs |-> Put(EmptyMap, "p1", [ip |-> "ip1"]),
   servers |-> Put(EmptyMap, "s2",
                   [hostname |-> "h2", mac |-> "m2", plug |-> "p1"]),
   state |-> Put(EmptyMap, "s2", NewState(FALSE, 0)),
   price |-> 1]

\* self.config_path.exists()
Exists(f) == f.kind # "none"

\* What open() and json.load raise on the file, if anything.
LoadError(f) ==
  IF f.kind = "unreadable" THEN "OSError"
  ELSE IF f.kind \in {"corrupt", "empty"} THEN "JSONDecodeError"
  ELSE "none"

\* Faulty variant, for sensitivity: only the parser's error is handled.
CaughtMut(err) == err = "JSONDecodeError"

\* _load's handler is "except Exception".
Caught(err) == TRUE

\* Config._load: the document returned, or the exception let through.
LoadOutcome(f) ==
  IF ~Exists(f) THEN [raised |-> FALSE, data |-> DefaultDoc]
  ELSE IF LoadError(f) = "none" THEN [raised |-> FALSE, data |-> f.doc]
  ELSE IF Caught(LoadError(f)) THEN [raised |-> FALSE, data |-> DefaultDoc]
  ELSE [raised |-> TRUE, data |-> DefaultDoc]

NoArgs ==
  [ip |-> NoneStr, hostname |-> NoneStr, mac |-> NoneStr, plug |-> NoneStr,
   online |-> FALSE, price |-> 0]

\* The record of a call.  ret is "none", "true", "false" or "raised"; saved is
\* "none" (save() not called), "written", "raised" (the write of the temporary
\* file or its rename raised) or "stopped" (save() ended before it wrote);
\* copy is "none" (no backup copy attempted), "copied" or "failed".
CallRecord(kind, name, args, ret, saved, copy) ==
  [kind |-> kind, name |-> name, args |-> args, ret |-> ret, saved |-> saved,
   copy |-> copy, docBefore |-> adoc, fileBefore |-> afile,
   bakBefore |-> abak]

\* Config(path): self.data = self._load().
StoreInit ==
  /\ afile \in {NoFile, FileOf(SeedDoc), Truncated(SeedDoc)}
  /\ abak = NoFile
  /\ adoc = LoadOutcome(afile).data
  /\ alast = [kind |-> "init", name |-> NoneStr, args |-> NoArgs,
              ret |-> IF LoadOutcome(afile).raised THEN "raised" ELSE "none",
              saved |-> "none", copy |-> "none", docBefore |-> DefaultDoc,
              fileBefore |-> afile, bakBefore |-> NoFile]
  /\ aleft = MaxEdits
  /\ aprev = NoFile
  /\ abacked = NoFile
  /\ awrites = 0

\* The mutators that call save() with its default backup=True.
AdminKinds ==
  {"add_plug", "update_plug", "remove_plug", "add_server", "update_server",
   "remove_server", "set_electricity_price"}

\* Faulty variant, for sensitivity: the copy is taken after the rename.
BackedUpMut(live, new) == new

\* shutil.copy2(self.config_path, backup_path): what the backup holds.
BackedUp(live, new) == live

\* Faulty variant, for sensitivity: a failed copy ends the save.
BackupFailureFatalMut(copyOk) == ~copyOk

\* save() logs a failure of the copy and goes on.
BackupFailureFatal(copyOk) == FALSE

\* Whether the copy of save(backup) can succeed, can fail: the copy is made
\* only if asked for and the file exists, and a file that may not be read is
\* not copied.
CopyOutcomes(f, backup) ==
  IF ~backup \/ ~Exists(f) THEN {FALSE}
  ELSE IF f.kind = "unreadable" THEN {FALSE}
  ELSE BOOLEAN

\* A call that left self.data as newdoc and, if saves, called save(backup);
\* ret is what it returns unless save() raises.
StoreCall(kind, name, args, newdoc, saves, backup, ret) ==
  \E writeOk \in (IF saves THEN BOOLEAN ELSE {FALSE}) :
  \E copyOk \in (IF saves THEN CopyOutcomes(afile, backup) ELSE {FALSE}) :
    LET tried == saves /\ backup /\ Exists(afile)
        copied == tried /\ copyOk
        stopped == tried /\ BackupFailureFatal(copyOk)
        written == saves /\ writeOk /\ ~stopped
    IN  /\ adoc' = newdoc
        /\ abak' = IF copied THEN BackedUp(afile, FileOf(newdoc)) ELSE abak
        /\ afile' = IF written THEN FileOf(newdoc) ELSE afile
        /\ alast' = CallRecord(kind, name, args,
                               IF saves /\ ~written THEN "raised" ELSE ret,
                               IF ~saves THEN "none"
                               ELSE IF stopped THEN "stopped"
                               ELSE IF written THEN "written" ELSE "raised",
                               IF ~tried THEN "none"
                               ELSE IF copied THEN "copied" ELSE "failed")
        /\ aprev' = IF written THEN afile ELSE aprev
        /\ awrites' = IF written THEN awrites + 1 ELSE awrites
        /\ abacked' = IF saves /\ kind \in AdminKinds /\ Exists(afile) /\ copyOk
                        THEN afile ELSE abacked
        /\ aleft' = aleft - 1

\* add_plug(name, ip)
StoreAddPlug ==
  /\ aleft > 0
  /\ UNCHANGED notStore
  /\ \E n \in StorePlugs, ip \in StoreIPs :
       StoreCall("add_plug", n, [NoArgs EXCEPT !.ip = ip],
                 [adoc EXCEPT !.plugs = Put(@, n, [ip |-> ip])],
                 TRUE, TRUE, "none")

\* update_plug(name, ip)
StoreUpdatePlug ==
  /\ aleft > 0
  /\ UNCHANGED notStore
  /\ \E n \in StorePlugs, ip \in StoreIPs :
       IF n \notin DOMAIN adoc.plugs
         THEN StoreCall("update_plug", n, [NoArgs EXCEPT !.ip = ip], adoc,
                        FALSE, TRUE, "false")
         ELSE StoreCall("update_plug", n, [NoArgs EXCEPT !.ip = ip],
                        [adoc EXCEPT !.plugs[n].ip = ip], TRUE, TRUE, "true")

\* remove_plug(name)
StoreRemovePlug ==
  /\ aleft > 0
  /\ UNCHANGED notStore
  /\ \E n \in StorePlugs :
       IF n \in DOMAIN adoc.plugs
         THEN StoreCall("remove_plug", n, NoArgs,
                        [adoc EXCEPT !.plugs = Del(@, n)], TRUE, TRUE, "true")
         ELSE StoreCall("remove_plug", n, NoArgs, adoc, FALSE, TRUE, "false")

\* Faulty variant, for sensitivity: the MAC is dropped.
MacOrEmptyMut(mac) == ""

\* add_server's  mac or "".
MacOrEmpty(mac) == IF mac \in {NoneStr, ""} THEN "" ELSE mac

\* add_server(name, hostname, mac, plug_name)
StoreAddServer ==
  /\ aleft > 0
  /\ UNCHANGED notStore
  /\ \E n \in StoreServers, mac \in Macs, plug \in Plugs :
       StoreCall("add_server", n,
                 [NoArgs EXCEPT !.hostname = "h1", !.mac = mac, !.plug = plug],
                 [adoc EXCEPT !.servers =
                    Put(@, n, [hostname |-> "h1", mac |-> MacOrEmpty(mac),
                               plug |-> plug])],
                 TRUE, TRUE, "none")

\* Faulty variant, for sensitivity: every field is taken as given.
ProvidedMut(v) == TRUE

\* update_server's  "is not None".
Provided(v) == v # NoneStr

\* update_server(name, hostname, mac, plug_name)
StoreUpdateServer ==
  /\ aleft > 0
  /\ UNCHANGED notStore
  /\ \E n \in StoreServers, h \in {NoneStr, "h3"}, mac \in {NoneStr, "", "m3"},
        plug \in {NoneStr, "p2"} :
       LET args == [NoArgs EXCEPT !.hostname = h, !.mac = mac, !.plug = plug]
       IN  IF n \notin DOMAIN adoc.servers
             THEN StoreCall("update_server", n, args, adoc, FALSE, TRUE,
                            "false")
             ELSE LET old == adoc.servers[n]
                      new == [hostname |-> IF Provided(h) THEN h
                                           ELSE old.hostname,
                              mac |-> IF Provided(mac) THEN mac ELSE old.mac,
                              plug |-> IF Provided(plug) THEN plug
                                       ELSE old.plug]
                  IN  StoreCall("update_server", n, args,
                                [adoc EXCEPT !.servers[n] = new],
                                TRUE, TRUE, "true")

\* remove_server(name)
StoreRemoveServer ==
  /\ aleft > 0
  /\ UNCHANGED notStore
  /\ \E n \in StoreServers :
       IF n \in DOMAIN adoc.servers
         THEN StoreCall("remove_server", n, NoArgs,
                        [adoc EXCEPT !.servers = Del(@, n)], TRUE, TRUE,
                        "true")
         ELSE StoreCall("remove_server", n, NoArgs, adoc, FALSE, TRUE,
                        "false")

\* set_electricity_price(price)
StoreSetPrice ==
  /\ aleft > 0
  /\ UNCHANGED notStore
  /\ \E p \in {0, 2} :
       StoreCall("set_electricity_price", NoneStr, [NoArgs EXCEPT !.price = p],
                 [adoc EXCEPT !.price = p], TRUE, TRUE, "none")

\* The time of the next call.
StoreNow == MaxEdits - aleft + 1

\* update_server_state(name, online), which saves with backup=False and only
\* if the state changed.
StoreUpdateState ==
  /\ aleft > 0
  /\ UNCHANGED notStore
  /\ \E n \in StoreServers, online \in BOOLEAN :
       LET changed == StateChanged(adoc.state, n, online)
           args == [NoArgs EXCEPT !.online = online]
       IN  IF changed
             THEN StoreCall("update_server_state", n, args,
                            [adoc EXCEPT !.state =
                               Put(@, n, NewState(online, StoreNow))],
                            TRUE, FALSE, "none")
             ELSE StoreCall("update_server_state", n, args, adoc, FALSE,
                            FALSE, "none")

\* reload(), and the construction of another Config on the path: self.data =
\* self._load().
StoreReload ==
  /\ aleft > 0
  /\ UNCHANGED notStore
  /\ LET out == LoadOutcome(afile)
     IN  /\ adoc' = IF out.raised THEN adoc ELSE out.data
         /\ alast' = CallRecord("reload", NoneStr, NoArgs,
                                IF out.raised THEN "raised" ELSE "none",
                                "none", "none")
  /\ aleft' = aleft - 1
  /\ UNCHANGED <<afile, abak, aprev, abacked, awrites>>

\* The file is damaged from outside the program.
StoreDamage ==
  /\ aleft > 0 /\ Exists(afile)
  /\ UNCHANGED notStore
  /\ afile' \in {Truncated(afile.doc), Empty, Unreadable(afile.doc)}
  /\ afile' # afile
  /\ alast' = CallRecord("damage", NoneStr, NoArgs, "none", "none", "none")
  /\ aleft' = aleft - 1
  /\ UNCHANGED <<adoc, abak, aprev, abacked, awrites>>

StoreNext ==
  \/ StoreAddPlug
  \/ StoreUpdatePlug
  \/ StoreRemovePlug
  \/ StoreAddServer
  \/ StoreUpdateServer
  \/ StoreRemoveServer
  \/ StoreSetPrice
  \/ StoreUpdateState
  \/ StoreReload
  \/ StoreDamage

\* ------------------------------------------------------------ store claims
\* The last call was a mutator that reached save().
AdminSaved == alast.kind \in AdminKinds /\ alast.saved # "none"

C25_BackupBeforeAdminWrite ==
  /\ (AdminSaved /\ Exists(alast.fileBefore)) => alast.copy # "none"
  /\ (AdminSaved /\ alast.copy = "copied") => abak = alast.fileBefore
  /\ alast.kind = "update_server_state" =>
       alast.copy = "none" /\ abak = alast.bakBefore
  /\ (AdminSaved /\ alast.copy = "failed") =>
       /\ alast.saved \in {"written", "raised"}
       /\ alast.saved = "raised" => alast.ret = "raised"
  /\ alast.saved = "written" => afile = FileOf(adoc)

C25_Witness ==
  /\ AdminSaved /\ alast.copy = "failed" /\ alast.saved = "written"
  /\ afile = FileOf(adoc) /\ afile # alast.fileBefore
  /\ abak = alast.bakBefore
  /\ alast.bakBefore # NoFile

\* C26: constructing or reloading a Config over a file that is truncated,
\* empty or unreadable does not raise and leaves the default document in
\* self.data; the config file and its backup are left as they were.
C26_DamagedFileLoadsDefault ==
  (/\ alast.kind \in {"init", "reload"}
   /\ alast.fileBefore.kind \in {"corrupt", "empty", "unreadable"}) =>
    /\ alast.ret # "raised"
    /\ adoc = DefaultDoc
    /\ afile = alast.fileBefore
    /\ abak = alast.bakBefore

C26_Witness ==
  /\ alast.kind = "reload"
  /\ alast.fileBefore.kind = "unreadable"
  /\ alast.docBefore # DefaultDoc
  /\ adoc = DefaultDoc
  /\ afile.doc # DefaultDoc

\* get_server(name): the record, or None.
GetServer(doc, n) ==
  IF n \in DOMAIN doc.servers
    THEN [found |-> TRUE, record |-> doc.servers[n]]
    ELSE [found |-> FALSE, record |-> [hostname |-> NoneStr, mac |-> NoneStr,
                                       plug |-> NoneStr]]

\* The arguments of an add_server call, as a record.
Given == [hostname |-> alast.args.hostname, mac |-> alast.args.mac,
          plug |-> alast.args.plug]

\* The last call left every server but its own, and every plug, as they were.
OthersKept ==
  /\ DOMAIN adoc.servers \ {alast.name} =
       DOMAIN alast.docBefore.servers \ {alast.name}
  /\ \A m \in DOMAIN adoc.servers \ {alast.name} :
       adoc.servers[m] = alast.docBefore.servers[m]
  /\ adoc.plugs = alast.docBefore.plugs

\* C27 (as stated): after add_server(name, hostname, mac, plug),
\* get_server(name) returns exactly the record given, from this Config and
\* from one loaded from the file; after remove_server(name) it returns None;
\* the other servers and the plugs are as before.
C27_RoundTripIdentical ==
  /\ alast.kind = "add_server" =>
       /\ GetServer(adoc, alast.name) = [found |-> TRUE, record |-> Given]
       /\ alast.saved = "written" =>
            GetServer(LoadOutcome(afile).data, alast.name) =
              [found |-> TRUE, record |-> Given]
       /\ OthersKept
  /\ (alast.kind = "remove_server" /\ alast.ret = "true") =>
       /\ ~GetServer(adoc, alast.name).found
       /\ ~GetServer(LoadOutcome(afile).data, alast.name).found
       /\ OthersKept

\* C27 (amended): after add_server(name, hostname, mac, plug),
\* get_server(name) returns the hostname and plug given and the MAC given, or
\* "" where the MAC given is None, from this Config and, once the save has
\* not raised, from one loaded from the file; after a remove_server(name) that
\* found the server it returns None from this Config and, once the save has not
\* raised, from one loaded from the file; the other servers and the plugs are
\* as before.
C27_RoundTripNormalized ==
  /\ alast.kind = "add_server" =>
       LET stored == [Given EXCEPT !.mac = IF @ = NoneStr THEN "" ELSE @]
       IN  /\ GetServer(adoc, alast.name) =
                [found |-> TRUE, record |-> stored]
           /\ alast.saved = "written" =>
                GetServer(LoadOutcome(afile).data, alast.name) =
                  [found |-> TRUE, record |-> stored]
           /\ OthersKept
  /\ (alast.kind = "remove_server" /\ alast.ret # "false") =>
       /\ ~GetServer(adoc, alast.name).found
       /\ alast.saved = "written" =>
            ~GetServer(LoadOutcome(afile).data, alast.name).found
       /\ OthersKept

C27_Witness ==
  /\ alast.kind = "add_server" /\ alast.args.mac = NoneStr
  /\ alast.saved = "written"
  /\ GetServer(LoadOutcome(afile).data, alast.name).record.mac = ""
  /\ \E m \in DOMAIN adoc.servers : m # alast.name

\* The last call named a plug or a server the document did not hold.
UnknownName ==
  \/ /\ alast.kind \in {"update_plug", "remove_plug"}
     /\ alast.name \notin DOMAIN alast.docBefore.plugs
  \/ /\ alast.kind \in {"update_server", "remove_server"}
     /\ alast.name \notin DOMAIN alast.docBefore.servers

\* C28: update_server on a server of the document sets the fields given (not
\* None) to the values given and leaves its other fields, the other servers,
\* the plugs, the liveness state and the settings as they were; update_server,
\* update_plug, remove_server and remove_plug on a name the document does not
\* hold return False, leave self.data as it was and do not call save().
C28_UpdateFrame ==
  /\ (alast.kind = "update_server" /\ ~UnknownName) =>
       LET b == alast.docBefore.servers[alast.name]
           a == adoc.servers[alast.name]
           g == alast.args
       IN  /\ alast.ret \in {"true", "raised"}
           /\ a.hostname = IF g.hostname # NoneStr THEN g.hostname
                           ELSE b.hostname
           /\ a.mac = IF g.mac # NoneStr THEN g.mac ELSE b.mac
           /\ a.plug = IF g.plug # NoneStr THEN g.plug ELSE b.plug
           /\ OthersKept
           /\ DOMAIN adoc.servers = DOMAIN alast.docBefore.servers
           /\ adoc.state = alast.docBefore.state
           /\ adoc.price = alast.docBefore.price
  /\ UnknownName =>
       /\ alast.ret = "false"
       /\ adoc = alast.docBefore
       /\ alast.saved = "none"
       /\ afile = alast.fileBefore
       /\ abak = alast.bakBefore

C28_Witness ==
  /\ alast.kind = "update_server" /\ ~UnknownName
  /\ alast.args.mac # NoneStr /\ alast.args.hostname = NoneStr
  /\ alast.args.plug = NoneStr
  /\ adoc.servers[alast.name].mac = alast.args.mac
  /\ adoc.servers[alast.name].hostname = "h2"
  /\ \E m \in DOMAIN adoc.servers : m # alast.name

\* Whether a document shows the change the mutator call c makes.
Applied(doc, c) ==
  CASE c.kind \in {"add_plug", "update_plug"} ->
         c.name \in DOMAIN doc.plugs /\ doc.plugs[c.name].ip = c.args.ip
    [] c.kind = "remove_plug" -> c.name \notin DOMAIN doc.plugs
    [] c.kind = "add_server" ->
         /\ c.name \in DOMAIN doc.servers
         /\ doc.servers[c.name] =
              [hostname |-> c.args.hostname, mac |-> MacOrEmpty(c.args.mac),
               plug |-> c.args.plug]
    [] c.kind = "update_server" ->
         /\ c.name \in DOMAIN doc.servers
         /\ \A k \in {"hostname", "mac", "plug"} :
              Provided(c.args[k]) => doc.servers[c.name][k] = c.args[k]
    [] c.kind = "remove_server" -> c.name \notin DOMAIN doc.servers
    [] c.kind = "set_electricity_price" -> doc.price = c.args.price
    [] c.kind = "update_server_state" ->
         /\ c.name \in DOMAIN doc.state
         /\ doc.state[c.name].online = c.args.online
    [] OTHER -> TRUE

\* The in-memory document and the one a load of the file gives agree.
InSync == adoc = Load(afile)

\* C37 (as stated): once a failed write has left the in-memory document and
\* the durable one different, they become equal again only by a successful
\* write.
C37_DifferUntilWritten ==
  [][(~InSync /\ InSync' /\ alast'.kind # "damage")
       => alast'.saved = "written"]_vars

\* After a mutator whose write failed: the file is as it was, the in-memory
\* document shows the change, and the two differ when they agreed before and
\* the call changed the document.
FailedWriteKept ==
  alast.saved = "raised" =>
    /\ alast.ret = "raised"
    /\ afile = alast.fileBefore
    /\ Applied(adoc, alast)
    /\ (alast.docBefore = Load(alast.fileBefore) /\ adoc # alast.docBefore)
         => ~InSync

\* A call of update_server_state that repeats the name and value of the call
\* before it, whose write failed.
RepeatsFailedState ==
  /\ alast.kind = "update_server_state" /\ alast.saved = "raised"
  /\ alast'.kind = "update_server_state"
  /\ alast'.name = alast.name
  /\ alast'.args.online = alast.args.online

\* C37 (amended): a mutator whose write fails keeps its change in memory and
\* leaves the file as it was; the two documents, once different, become equal
\* again only by a successful write, by a reload() or by a call that changes
\* the in-memory document once more; update_server_state repeated with the
\* value whose write failed calls save() no more and changes nothing.
C37_FailedWriteNotRolledBack ==
  /\ []FailedWriteKept
  /\ [][/\ (~InSync /\ InSync' /\ alast'.kind # "damage") =>
            \/ alast'.saved = "written"
            \/ alast'.kind = "reload"
            \/ adoc' # adoc
        /\ RepeatsFailedState =>
            /\ alast'.saved = "none"
            /\ adoc' = adoc /\ afile' = afile]_vars

C37_Witness ==
  /\ alast.kind = "update_server_state" /\ alast.name = "s2"
  /\ alast.args.online /\ alast.saved = "none"
  /\ aleft = 0 /\ awrites = 0 /\ afile = FileOf(SeedDoc)
  /\ adoc.state["s2"].online /\ ~Load(afile).state["s2"].online

\* ------------------------------------------------------------------- api
(***************************************************************************)
(* SpecApi: requests to the REST handlers of src/server/main.py, one after *)
(* another, over the one Config of the process.  A handler is taken whole: *)
(* its checks, its call of the Config or of PowerControlService, and the   *)
(* status code it answers with.  A power operation that is admitted runs   *)
(* to its end; what it does is kept as the list of outlet and host calls   *)
(* it made and whether it returned success.                                *)
(***************************************************************************)
MaxReqs == 2

\* The document the process starts with: an outlet and two servers on it, one
\* of them without a MAC.
ApiSeed ==
  [SeedDoc EXCEPT !.servers =
     Put(@, "s1", [hostname |-> "h1", mac |-> "", plug |-> "p1"])]

NoReq ==
  [kind |-> "none", name |-> NoneStr, code |-> 0, success |-> FALSE,
   docBefore |-> DefaultDoc]

ApiInit ==
  /\ gdoc = ApiSeed
  /\ gcalls = <<>>
  /\ glast = NoReq
  /\ gleft = MaxReqs

\* An answered request.
Answered(kind, name, code, success) ==
  [kind |-> kind, name |-> name, code |-> code, success |-> success,
   docBefore |-> gdoc]

\* "except Exception" around the body of the PUT handlers: HTTPException is an
\* Exception, so the 404 raised inside the try is caught with the rest.
CatchesHTTPException == TRUE

\* The status of a PUT handler whose Config call returned found (or raised).
PutCode(found, raised) ==
  IF raised THEN 500
  ELSE IF found THEN 200
  ELSE IF CatchesHTTPException THEN 500 ELSE 404

\* PUT /plugs: config.update_plug(name, ip)
ApiUpdatePlug ==
  /\ gleft > 0
  /\ UNCHANGED notApi
  /\ \E n \in StorePlugs, ip \in StoreIPs, saveOk \in BOOLEAN :
       LET found == n \in DOMAIN gdoc.plugs
       IN  /\ gdoc' = IF found THEN [gdoc EXCEPT !.plugs[n].ip = ip]
                      ELSE gdoc
           /\ glast' = Answered("put_plug", n,
                                PutCode(found, found /\ ~saveOk), FALSE)
  /\ gcalls' = <<>>
  /\ gleft' = gleft - 1

\* PUT /servers: config.update_server(name, hostname, mac, plug)
ApiUpdateServer ==
  /\ gleft > 0
  /\ UNCHANGED notApi
  /\ \E n \in StoreServers \cup {"s3"}, mac \in {NoneStr, "", "m3"},
        plug \in {NoneStr, "p2"}, saveOk \in BOOLEAN :
       LET found == n \in DOMAIN gdoc.servers
       IN  /\ gdoc' = IF found
                        THEN [gdoc EXCEPT
                                !.servers[n].mac =
                                   IF Provided(mac) THEN mac ELSE @,
                                !.servers[n].plug =
                                   IF Provided(plug) THEN plug ELSE @]
                        ELSE gdoc
           /\ glast' = Answered("put_server", n,
                                PutCode(found, found /\ ~saveOk), FALSE)
  /\ gcalls' = <<>>
  /\ gleft' = gleft - 1

\* DELETE /plugs: config.remove_plug(name); the handler has no try, and an
\* exception of save() is answered with 500 by the framework.
ApiRemovePlug ==
  /\ gleft > 0
  /\ UNCHANGED notApi
  /\ \E n \in StorePlugs, saveOk \in BOOLEAN :
       LET found == n \in DOMAIN gdoc.plugs
       IN  /\ gdoc' = IF found THEN [gdoc EXCEPT !.plugs = Del(@, n)]
                      ELSE gdoc
           /\ glast' = Answered("remove_plug", n,
                                IF ~found THEN 404
                                ELSE IF saveOk THEN 200 ELSE 500, FALSE)
  /\ gcalls' = <<>>
  /\ gleft' = gleft - 1

\* Faulty variant, for sensitivity: the plug name is not looked up.
ResolvesMut(doc, plug) == TRUE

\* config.get_plug(server["plug"]) is not None.
Resolves(doc, plug) == plug \in DOMAIN doc.plugs

\* Python's  not server.get(field).
Falsy(v) == v \in {NoneStr, ""}

\* The checks at the head of power_on_server (needsMac) and power_off_server:
\* the status they raise, or 200 when the operation is started.
Admission(doc, n, needsMac) ==
  IF n \notin DOMAIN doc.servers THEN 404
  ELSE IF Falsy(doc.servers[n].plug) THEN 400
  ELSE IF needsMac /\ Falsy(doc.servers[n].mac) THEN 400
  ELSE IF ~Resolves(doc, doc.servers[n].plug) THEN 404
  ELSE 200

\* The runs of PowerControlService.power_on: the outlet and host calls made,
\* and whether the result says success (a run that raises has no result).
PowerOnRuns ==
  {[calls |-> <<"TurnOn">>, success |-> FALSE],
   [calls |-> <<"TurnOn", "Ping">>, success |-> TRUE],
   [calls |-> <<"TurnOn", "Ping", "GetPower">>, success |-> TRUE],
   [calls |-> <<"TurnOn", "Ping", "GetPower", "SendWOL", "Ping">>,
    success |-> TRUE],
   [calls |-> <<"TurnOn", "Ping", "GetPower", "SendWOL", "Ping", "TurnOff">>,
    success |-> FALSE]}

\* The runs of PowerControlService.power_off.
PowerOffRuns ==
  {[calls |-> <<"Shutdown", "GetPower", "TurnOff">>, success |-> TRUE],
   [calls |-> <<"Shutdown", "GetPower">>, success |-> FALSE]}

\* POST /power/on
ApiPowerOn ==
  /\ gleft > 0
  /\ UNCHANGED notApi
  /\ \E n \in StoreServers, run \in PowerOnRuns :
       LET code == Admission(gdoc, n, TRUE)
       IN  /\ gcalls' = IF code = 200 THEN run.calls ELSE <<>>
           /\ glast' = Answered("power_on", n, code,
                                code = 200 /\ run.success)
  /\ gleft' = gleft - 1
  /\ UNCHANGED gdoc

\* POST /power/off
ApiPowerOff ==
  /\ gleft > 0
  /\ UNCHANGED notApi
  /\ \E n \in StoreServers, run \in PowerOffRuns :
       LET code == Admission(gdoc, n, FALSE)
       IN  /\ gcalls' = IF code = 200 THEN run.calls ELSE <<>>
           /\ glast' = Answered("power_off", n, code,
                                code = 200 /\ run.success)
  /\ gleft' = gleft - 1
  /\ UNCHANGED gdoc

\* The time of the next request.
ApiNow == MaxReqs - gleft + 1

\* get_all_status's loop over the servers: each is pinged and
\* update_server_state records the answer; with a disk that fails, the first
\* save raises out of the loop.
RECURSIVE PollServers(_, _, _, _)
PollServers(state, names, up, diskOk) ==
  IF names = <<>> THEN [state |-> state, raised |-> FALSE]
  ELSE LET n == Head(names)
           changed == StateChanged(state, n, n \in up)
           next == IF changed THEN Put(state, n, NewState(n \in up, ApiNow))
                   ELSE state
       IN  IF changed /\ ~diskOk THEN [state |-> next, raised |-> TRUE]
           ELSE PollServers(next, Tail(names), up, diskOk)

\* GET /status
ApiStatus ==
  /\ gleft > 0
  /\ UNCHANGED notApi
  /\ \E up \in SUBSET StoreServers, diskOk \in BOOLEAN :
       LET names == SelectSeq(<<"s1", "s2">>,
                              LAMBDA n : n \in DOMAIN gdoc.servers)
           out == PollServers(gdoc.state, names, up, diskOk)
       IN  /\ gdoc' = [gdoc EXCEPT !.state = out.state]
           /\ glast' = Answered("status", NoneStr,
                                IF out.raised THEN 500 ELSE 200, FALSE)
  /\ gcalls' = <<>>
  /\ gleft' = gleft - 1

ApiNext ==
  \/ ApiUpdatePlug
  \/ ApiUpdateServer
  \/ ApiRemovePlug
  \/ ApiPowerOn
  \/ ApiPowerOff
  \/ ApiStatus

\* -------------------------------------------------------------- api claims
\* The server names a plug that the document does not hold.
Dangling(doc, n) ==
  /\ n \in DOMAIN doc.servers
  /\ ~Falsy(doc.servers[n].plug)
  /\ doc.servers[n].plug \notin DOMAIN doc.plugs

\* C21: remove_plug leaves every server, its plug field included, as it was;
\* and a power-on or power-off request for a server whose plug is not in the
\* document is answered with an error status (400 or 404) without one outlet
\* or host call being made.
C21_DanglingReferenceRejected ==
  /\ glast.kind = "remove_plug" => gdoc.servers = glast.docBefore.servers
  /\ (/\ glast.kind \in {"power_on", "power_off"}
      /\ Dangling(glast.docBefore, glast.name)) =>
       /\ glast.code \in {400, 404}
       /\ gcalls = <<>>
       /\ ~glast.success
       /\ gdoc = glast.docBefore

C21_Witness ==
  /\ glast.kind = "power_off"
  /\ "p1" \notin DOMAIN gdoc.plugs
  /\ glast.name = "s2" /\ gdoc.servers["s2"].plug = "p1"
  /\ glast.code = 404 /\ gcalls = <<>>

\* C22: a power-on request for a server with a plug of the document and no
\* MAC is admitted: the outlet is turned on first.
C22_NoMacAdmitted ==
  (/\ glast.kind = "power_on"
   /\ glast.name \in DOMAIN glast.docBefore.servers
   /\ Resolves(glast.docBefore, glast.docBefore.servers[glast.name].plug)
   /\ glast.docBefore.servers[glast.name].mac = "") =>
    /\ glast.code = 200
    /\ gcalls # <<>> /\ Head(gcalls) = "TurnOn"

\* C23: when a power-on request has returned success for a server whose
\* recorded state was offline or absent, the recorded state of the server is
\* online.
C23_PowerOnPersistsOnline ==
  (/\ glast.kind = "power_on" /\ glast.success
   /\ \/ glast.name \notin DOMAIN glast.docBefore.state
      \/ ~glast.docBefore.state[glast.name].online) =>
    /\ glast.name \in DOMAIN gdoc.state
    /\ gdoc.state[glast.name].online

\* C29: a PUT /plugs or PUT /servers request naming a plug or server the
\* document does not hold is answered with 404 and leaves the document as it
\* was.
C29_UnknownUpdateIsNotFound ==
  (\/ /\ glast.kind = "put_plug"
      /\ glast.name \notin DOMAIN glast.docBefore.plugs
   \/ /\ glast.kind = "put_server"
      /\ glast.name \notin DOMAIN glast.docBefore.servers) =>
    /\ glast.code = 404
    /\ gdoc = glast.docBefore

\* ------------------------------------------------------------------ list
(***************************************************************************)
(* SpecList: one call of StatusService.get_all_status                      *)
(* (src/server/status_service.py) on the event loop, and one               *)
(* administrative request (POST or DELETE of /plugs or /servers) that the  *)
(* loop serves while the call is suspended in an outlet read.  The loops   *)
(* of get_all_status iterate config.data["plugs"] and                      *)
(* config.data["servers"] themselves (list_plugs and list_servers return   *)
(* the dicts, not copies); a dict iterator raises RuntimeError at its next *)
(* step when the size of the dict is not the one it started with.  A dict  *)
(* is kept as the sequence of its entries: a new key is appended, and an   *)
(* assignment to a present key replaces the value in place.                *)
(***************************************************************************)
ListPlugs == {"p1", "p2", "p3"}
ListServers == {"s1", "s2", "s3"}

Entry(name, data) == [name |-> name, data |-> data]
NoEntry == Entry(NoneStr, NoneStr)

\* d[k] = v  and  del d[k]  on a dict kept as the sequence of its entries.
SetItem(d, k, v) ==
  IF \E i \in DOMAIN d : d[i].name = k
    THEN [i \in DOMAIN d |-> IF d[i].name = k THEN Entry(k, v) ELSE d[i]]
    ELSE Append(d, Entry(k, v))
DelItem(d, k) == SelectSeq(d, LAMBDA x : x.name # k)
Keys(d) == {d[i].name : i \in DOMAIN d}

\* Plugs carry their ip, servers their plug name.
ListInit ==
  /\ lplugs \in {<<Entry("p1", "ip1")>>,
                 <<Entry("p1", "ip1"), Entry("p2", "ip1")>>}
  /\ lservers \in {<<Entry("s1", "p1")>>,
                   <<Entry("s1", "p1"), Entry("s2", NoneStr)>>}
  /\ lstart = [plugs |-> lplugs, servers |-> lservers]
  /\ lpc = "plugs"
  /\ lidx = 1
  /\ lsize = Len(lplugs)
  /\ lawait = FALSE
  /\ lcur = NoEntry
  /\ lpout = <<>>
  /\ lsout = <<>>
  /\ ladmin = TRUE

\* The next step of  for name, plug_data in plugs.items():  the dict has
\* changed size and the iterator raises.
ListPlugsRaise ==
  /\ lpc = "plugs" /\ ~lawait
  /\ Len(lplugs) # lsize
  /\ UNCHANGED notList
  /\ lpc' = "raised"
  /\ UNCHANGED <<lplugs, lservers, lstart, lidx, lsize, lawait, lcur, lpout,
                 lsout, ladmin>>

\* The iterator yields the next plug and get_plug_status awaits the outlet.
ListPlugVisit ==
  /\ lpc = "plugs" /\ ~lawait
  /\ Len(lplugs) = lsize /\ lidx <= Len(lplugs)
  /\ UNCHANGED notList
  /\ lcur' = lplugs[lidx]
  /\ lidx' = lidx + 1
  /\ lawait' = TRUE
  /\ UNCHANGED <<lplugs, lservers, lstart, lpc, lsize, lpout, lsout, ladmin>>

\* The outlet has answered (or failed): plugs_status.append(plug_status).
ListPlugResume ==
  /\ lpc = "plugs" /\ lawait
  /\ UNCHANGED notList
  /\ lpout' = Append(lpout, lcur)
  /\ lawait' = FALSE
  /\ UNCHANGED <<lplugs, lservers, lstart, lpc, lidx, lsize, lcur, lsout,
                 ladmin>>

\* The plug loop ends; servers = self.config.list_servers() and the iterator
\* of the server loop is made.
ListPlugsDone ==
  /\ lpc = "plugs" /\ ~lawait
  /\ Len(lplugs) = lsize /\ lidx > Len(lplugs)
  /\ UNCHANGED notList
  /\ lpc' = "servers"
  /\ lidx' = 1
  /\ lsize' = Len(lservers)
  /\ UNCHANGED <<lplugs, lservers, lstart, lawait, lcur, lpout, lsout,
                 ladmin>>

\* The next step of  for name, server_data in servers.items()  raises.
ListServersRaise ==
  /\ lpc = "servers" /\ ~lawait
  /\ Len(lservers) # lsize
  /\ UNCHANGED notList
  /\ lpc' = "raised"
  /\ UNCHANGED <<lplugs, lservers, lstart, lidx, lsize, lawait, lcur, lpout,
                 lsout, ladmin>>

\* The iterator yields the next server.  get_server_status pings it (a
\* blocking call) and awaits only the outlet of a plug that it finds.
ListServerVisit ==
  /\ lpc = "servers" /\ ~lawait
  /\ Len(lservers) = lsize /\ lidx <= Len(lservers)
  /\ UNCHANGED notList
  /\ lidx' = lidx + 1
  /\ IF lservers[lidx].data \in Keys(lplugs)
       THEN /\ lcur' = lservers[lidx]
            /\ lawait' = TRUE
            /\ UNCHANGED lsout
       ELSE /\ lsout' = Append(lsout, lservers[lidx])
            /\ UNCHANGED <<lcur, lawait>>
  /\ UNCHANGED <<lplugs, lservers, lstart, lpc, lsize, lpout, ladmin>>

\* The outlet has answered (or failed): servers_status.append(server_status).
ListServerResume ==
  /\ lpc = "servers" /\ lawait
  /\ UNCHANGED notList
  /\ lsout' = Append(lsout, lcur)
  /\ lawait' = FALSE
  /\ UNCHANGED <<lplugs, lservers, lstart, lpc, lidx, lsize, lcur, lpout,
                 ladmin>>

\* The server loop ends; the summary is computed and the call returns.
ListReturn ==
  /\ lpc = "servers" /\ ~lawait
  /\ Len(lservers) = lsize /\ lidx > Len(lservers)
  /\ UNCHANGED notList
  /\ lpc' = "done"
  /\ UNCHANGED <<lplugs, lservers, lstart, lidx, lsize, lawait, lcur, lpout,
                 lsout, ladmin>>

\* POST /plugs served while the call is suspended: config.add_plug(name, ip).
AdminAddPlug ==
  /\ lawait /\ ladmin
  /\ UNCHANGED notList
  /\ \E n \in ListPlugs : lplugs' = SetItem(lplugs, n, "ip2")
  /\ ladmin' = FALSE
  /\ UNCHANGED <<lservers, lstart, lpc, lidx, lsize, lawait, lcur, lpout,
                 lsout>>

\* DELETE /plugs: config.remove_plug(name) of a configured plug.
AdminRemovePlug ==
  /\ lawait /\ ladmin
  /\ UNCHANGED notList
  /\ \E n \in Keys(lplugs) : lplugs' = DelItem(lplugs, n)
  /\ ladmin' = FALSE
  /\ UNCHANGED <<lservers, lstart, lpc, lidx, lsize, lawait, lcur, lpout,
                 lsout>>

\* POST /servers: config.add_server(name, hostname, mac, plug).
AdminAddServer ==
  /\ lawait /\ ladmin
  /\ UNCHANGED notList
  /\ \E n \in ListServers : lservers' = SetItem(lservers, n, "p1")
  /\ ladmin' = FALSE
  /\ UNCHANGED <<lplugs, lstart, lpc, lidx, lsize, lawait, lcur, lpout,
                 lsout>>

\* DELETE /servers: config.remove_server(name) of a configured server.
AdminRemoveServer ==
  /\ lawait /\ ladmin
  /\ UNCHANGED notList
  /\ \E n \in Keys(lservers) : lservers' = DelItem(lservers, n)
  /\ ladmin' = FALSE
  /\ UNCHANGED <<lplugs, lstart, lpc, lidx, lsize, lawait, lcur, lpout,
                 lsout>>

ListNext ==
  \/ ListPlugsRaise
  \/ ListPlugVisit
  \/ ListPlugResume
  \/ ListPlugsDone
  \/ ListServersRaise
  \/ ListServerVisit
  \/ ListServerResume
  \/ ListReturn
  \/ AdminAddPlug
  \/ AdminRemovePlug
  \/ AdminAddServer
  \/ AdminRemoveServer

\* ------------------------------------------------------------- list claims
\* C30: a get_all_status call during which an administrative request added or
\* removed a plug or a server does not raise, and when it returns it has
\* reported exactly the plugs and the servers configured when it began.
C30_ListIsSnapshot ==
  /\ lpc # "raised"
  /\ lpc = "done" => lpout = lstart.plugs /\ lsout = lstart.servers

\* ------------------------------------------------------------------ cost
(***************************************************************************)
(* SpecCost: the cost fields StatusService derives for one outlet           *)
(* (src/server/status_service.py).  Prices are counted in hundredths of the *)
(* currency unit per kWh, energies in Wh, power in W and costs in           *)
(* ten-thousandths of the currency unit: a cost of amount/1000 * price is   *)
(* amount * price / 10 ten-thousandths.                                     *)
(***************************************************************************)
CostPrices == {-25, 0, 1, 3, 5, 25}
CostEnergies == {0, 1, 3, 15, 400}
CostMonths == {15, 400}
CostPowers == {0, 5, 55}

NoCost ==
  [today_cost |-> 0, month_cost |-> 0, current_cost_per_hour |-> 0,
   by |-> "none"]

CostInit ==
  /\ kprice \in CostPrices
  /\ ktoday \in CostEnergies
  /\ kmonth \in CostMonths
  /\ kpower \in CostPowers
  /\ kcost = NoCost

\* round(x, 4) for the float nearest to n / 10 ten-thousandths: the nearest
\* ten-thousandth; when n / 10 lies halfway between two, the float lies on one
\* side or the other and either neighbour results.
Round4(n) ==
  LET q == n \div 10
      r == n % 10
  IN  IF r < 5 THEN {q} ELSE IF r > 5 THEN {q + 1} ELSE {q, q + 1}

\* Faulty variant, for sensitivity: the amount is not converted to kWh.
CostOfMut(amount, price) ==
  IF price > 0 THEN Round4(amount * price * 1000) ELSE {0}

\* round((amount / 1000) * price if price > 0 else 0, 4)
CostOf(amount, price) ==
  IF price > 0 THEN Round4(amount * price) ELSE {0}

\* The three cost fields both methods compute.
CostFields(by) ==
  \E t \in CostOf(ktoday, kprice), m \in CostOf(kmonth, kprice),
     c \in CostOf(kpower, kprice) :
    kcost' = [today_cost |-> t, month_cost |-> m,
              current_cost_per_hour |-> c, by |-> by]

\* get_plug_status: the cost fields of a plug entry.
CostPlug ==
  /\ kcost.by = "none"
  /\ UNCHANGED notCost
  /\ CostFields("get_plug_status")
  /\ UNCHANGED <<kprice, ktoday, kmonth, kpower>>

\* get_server_status: the cost fields of a server entry's power dict.
CostServer ==
  /\ kcost.by = "none"
  /\ UNCHANGED notCost
  /\ CostFields("get_server_status")
  /\ UNCHANGED <<kprice, ktoday, kmonth, kpower>>

CostNext ==
  \/ CostPlug
  \/ CostServer

\* ------------------------------------------------------------- cost claims
\* Whether a cost, in ten-thousandths, is a ten-thousandth nearest to
\* amount / 1000 * price.
Nearest(cost, amount, price) ==
  /\ 10 * cost - amount * price <= 5
  /\ amount * price - 10 * cost <= 5

MaxEventCalls == 3

EventNames == {"", "a", "b"}
Callbacks == {"f", "g"}
EventData == {1, 2}

NoListeners == [n \in EventNames |-> <<>>]

EventCall(kind, name, data, awaited, raised) ==
  [kind |-> kind, name |-> name, data |-> data, before |-> elisteners,
   awaited |-> awaited, raised |-> raised]

EventsInit ==
  /\ elisteners = NoListeners
  /\ eraises \in SUBSET Callbacks
  /\ elast = [kind |-> "none", name |-> "", data |-> 0,
              before |-> NoListeners, awaited |-> <<>>, raised |-> FALSE]
  /\ eleft = MaxEventCalls

\* add_listener: cls.listeners.setdefault(event_name, []).append(callback)
AddListener ==
  /\ eleft > 0
  /\ UNCHANGED notEvents
  /\ \E n \in EventNames, cb \in Callbacks :
       /\ elisteners' = [elisteners EXCEPT ![n] = Append(@, cb)]
       /\ elast' = EventCall("add_listener", n, 0, <<>>, FALSE)
  /\ eleft' = eleft - 1
  /\ UNCHANGED eraises

\* Faulty variant, for sensitivity: the exception of a callback leaves emit.
EmitCatchesMut(cb) == FALSE

\* emit awaits each callback inside try/except Exception and logs the error.
EmitCatches(cb) == TRUE

\* The callbacks the loop of emit awaits, and whether an exception left it.
RECURSIVE EmitLoop(_, _)
EmitLoop(ls, awaited) ==
  IF ls = <<>>
    THEN [awaited |-> awaited, raised |-> FALSE]
    ELSE IF Head(ls) \in eraises /\ ~EmitCatches(Head(ls))
      THEN [awaited |-> Append(awaited, Head(ls)), raised |-> TRUE]
      ELSE EmitLoop(Tail(ls), Append(awaited, Head(ls)))

\* emit(event_name, data): for callback in cls.listeners.get(event_name, [])
Emit ==
  /\ eleft > 0
  /\ UNCHANGED notEvents
  /\ \E n \in EventNames, d \in EventData :
       LET run == EmitLoop(elisteners[n], <<>>)
       IN  elast' = EventCall("emit", n, d, run.awaited, run.raised)
  /\ eleft' = eleft - 1
  /\ UNCHANGED <<elisteners, eraises>>

\* if event_name: a name that is None or empty is falsy.
Truthy(n) == n \notin {NoneStr, ""}

\* clear_listeners(event_name): cls.listeners.pop(event_name, None) for a
\* truthy name, cls.listeners.clear() otherwise.
ClearListeners ==
  /\ eleft > 0
  /\ UNCHANGED notEvents
  /\ \E n \in EventNames \cup {NoneStr} :
       /\ elisteners' = IF Truthy(n)
                          THEN [elisteners EXCEPT ![n] = <<>>]
                          ELSE NoListeners
       /\ elast' = EventCall("clear_listeners", n, 0, <<>>, FALSE)
  /\ eleft' = eleft - 1
  /\ UNCHANGED eraises

EventsNext ==
  \/ AddListener
  \/ Emit
  \/ ClearListeners

\* ----------------------------------------------------------- events claims
\* emit(event, data) awaited the callbacks registered for that event, each
\* registration once and in the order of registration, those after a raising
\* callback included, and did not raise.
EmitDelivers ==
  elast.kind = "emit" =>
    /\ elast.awaited = elast.before[elast.name]
    /\ ~elast.raised
    /\ elisteners = elast.before

\* C36: emit(event, data) awaits every listener of that event once, in
\* registration order, whatever listener raises, and does not raise; and
\* clear_listeners(event), for every event name, removes the listeners of that
\* event and leaves those of every other event registered.
C36_EmitAndClear ==
  /\ EmitDelivers
  /\ (elast.kind = "clear_listeners" /\ elast.name # NoneStr) =>
       /\ elisteners[elast.name] = <<>>
       /\ \A n \in EventNames \ {elast.name} :
            elisteners[n] = elast.before[n]

\* ------------------------------------------------------------ specifications
\* No power operation in flight.
PowerParked ==
  /\ op = "none" /\ pc = "idle"
  /\ now = 0 /\ passed = 0 /\ wait = 0
  /\ power = None /\ tsLow = None /\ runStart = None
  /\ exit = "none" /\ result = NoResult /\ calls = <<>>
  /\ pingOk = FALSE /\ polls = 0 /\ failed = "none"
  /\ shutdownOk = "none" /\ sawFail = FALSE /\ dipped = FALSE
  /\ sawRead = FALSE

\* No configuration call in flight.
ConfigParked ==
  /\ instOf = [t \in Threads |-> "api"]
  /\ file = NoFile /\ bak = NoFile
  /\ mem = [i \in Insts |-> DefaultDoc]
  /\ th = [t \in Threads |-> IdleThread]
  /\ tmp = [t \in Threads |-> NoFile]
  /\ opsLeft = 0 /\ utc = 1
  /\ hist = {} /\ raisedCalls = {} /\ durable = {} /\ fault = FALSE

\* No sequence of state updates in progress.
StateParked ==
  /\ sdoc = DefaultDoc /\ sfile = NoFile /\ sclock = 1
  /\ sseen = EmptyMap /\ slast = NoCall /\ sleft = 0
  /\ slife = [n \in StateNames |-> "same"]

\* No request streaming.
StreamParked ==
  /\ sop = "none" /\ ppc = "done" /\ awaiting = "none"
  /\ nlogs = 0 /\ nawaits = 0 /\ offIssued = FALSE
  /\ pend = <<>> /\ queue = <<>> /\ delivered = <<>>
  /\ cpc = "closed" /\ keptAlive = FALSE

\* No power request.
RaceParked ==
  /\ rvalid = FALSE
  /\ rkind = [r \in Reqs |-> "on"]
  /\ rpc = [r \in Reqs |-> "done"]
  /\ events = <<>>

\* No status request.
StatusParked ==
  /\ tplugs = {} /\ tservers = EmptyMap
  /\ tanswer = [n \in Range(StatusPlugs) |-> "off"]
  /\ tup = {} /\ tdisk = TRUE /\ tstate = EmptyMap
  /\ tpc = "done" /\ tidx = 1
  /\ tplugsOut = <<>> /\ tserversOut = <<>>
  /\ tsummary = NoSummary /\ tagain = FALSE

\* No call on the sequential store.
StoreParked ==
  /\ adoc = DefaultDoc /\ afile = NoFile /\ abak = NoFile
  /\ alast = [kind |-> "init", name |-> NoneStr, args |-> NoArgs,
              ret |-> "none", saved |-> "none", copy |-> "none",
              docBefore |-> DefaultDoc, fileBefore |-> NoFile,
              bakBefore |-> NoFile]
  /\ aleft = 0 /\ aprev = NoFile /\ abacked = NoFile /\ awrites = 0

\* No request to the REST handlers.
ApiParked ==
  /\ gdoc = DefaultDoc /\ gcalls = <<>> /\ glast = NoReq /\ gleft = 0

\* No status call with an administrative request beside it.
ListParked ==
  /\ lplugs = <<>> /\ lservers = <<>>
  /\ lstart = [plugs |-> <<>>, servers |-> <<>>]
  /\ lpc = "done" /\ lidx = 1 /\ lsize = 0 /\ lawait = FALSE
  /\ lcur = NoEntry /\ lpout = <<>> /\ lsout = <<>> /\ ladmin = FALSE

\* No cost derivation.
CostParked ==
  /\ kprice = 0 /\ ktoday = 0 /\ kmonth = 0 /\ kpower = 0
  /\ kcost = [NoCost EXCEPT !.by = "parked"]

\* No call on the event service.
EventsParked ==
  /\ elisteners = NoListeners /\ eraises = {} /\ eleft = 0
  /\ elast = [kind |-> "none", name |-> "", data |-> 0,
              before |-> NoListeners, awaited |-> <<>>, raised |-> FALSE]

\* The components other than the power operation at rest, and so on.
RestForPower ==
  ConfigParked /\ StateParked /\ StreamParked /\ RaceParked /\ StatusParked
  /\ StoreParked /\ ApiParked /\ ListParked /\ CostParked /\ EventsParked
RestForConfig ==
  PowerParked /\ StateParked /\ StreamParked /\ RaceParked /\ StatusParked
  /\ StoreParked /\ ApiParked /\ ListParked /\ CostParked /\ EventsParked
RestForState ==
  PowerParked /\ ConfigParked /\ StreamParked /\ RaceParked /\ StatusParked
  /\ StoreParked /\ ApiParked /\ ListParked /\ CostParked /\ EventsParked
RestForStream ==
  PowerParked /\ ConfigParked /\ StateParked /\ RaceParked /\ StatusParked
  /\ StoreParked /\ ApiParked /\ ListParked /\ CostParked /\ EventsParked
RestForRace ==
  PowerParked /\ ConfigParked /\ StateParked /\ StreamParked /\ StatusParked
  /\ StoreParked /\ ApiParked /\ ListParked /\ CostParked /\ EventsParked
RestForStatus ==
  PowerParked /\ ConfigParked /\ StateParked /\ StreamParked /\ RaceParked
  /\ StoreParked /\ ApiParked /\ ListParked /\ CostParked /\ EventsParked
RestForStore ==
  PowerParked /\ ConfigParked /\ StateParked /\ StreamParked /\ RaceParked
  /\ StatusParked /\ ApiParked /\ ListParked /\ CostParked /\ EventsParked
RestForApi ==
  PowerParked /\ ConfigParked /\ StateParked /\ StreamParked /\ RaceParked
  /\ StatusParked /\ StoreParked /\ ListParked /\ CostParked /\ EventsParked
RestForList ==
  PowerParked /\ ConfigParked /\ StateParked /\ StreamParked /\ RaceParked
  /\ StatusParked /\ StoreParked /\ ApiParked /\ CostParked /\ EventsParked
RestForCost ==
  PowerParked /\ ConfigParked /\ StateParked /\ StreamParked /\ RaceParked
  /\ StatusParked /\ StoreParked /\ ApiParked /\ ListParked /\ EventsParked
RestForEvents ==
  PowerParked /\ ConfigParked /\ StateParked /\ StreamParked /\ RaceParked
  /\ StatusParked /\ StoreParked /\ ApiParked /\ ListParked /\ CostParked

\* One power operation, the configuration store untouched.
InitPower == PowerInit /\ RestForPower

SpecPower == InitPower /\ [][PowerNext]_vars

\* The same, with calls that return or raise and sleeps that end: the
\* operation takes its next step.
SpecPowerLive == InitPower /\ [][PowerNext]_vars /\ WF_vars(PowerNext)

\* Calls on the configuration store, no power operation.
InitConfig == ConfigInit /\ RestForConfig

SpecConfig == InitConfig /\ [][ConfigNext]_vars

\* A sequence of update_server_state calls on one Config.
InitState == StateInit /\ RestForState

SpecState == InitState /\ [][StateNext]_vars

\* Two power requests for one server.
InitRace == RaceInit /\ RestForRace

SpecRace == InitRace /\ [][RaceNext]_vars

\* One call of get_all_status.
InitStatus == StatusInit /\ RestForStatus

SpecStatus == InitStatus /\ [][StatusNext]_vars

\* A sequence of calls on one Config.
InitStore == StoreInit /\ RestForStore

SpecStore == InitStore /\ [][StoreNext]_vars

\* A sequence of requests to the REST handlers.
InitApi == ApiInit /\ RestForApi

SpecApi == InitApi /\ [][ApiNext]_vars

\* One status call and one administrative request.
InitList == ListInit /\ RestForList

SpecList == InitList /\ [][ListNext]_vars

\* One cost derivation.
InitCost == CostInit /\ RestForCost

SpecCost == InitCost /\ [][CostNext]_vars

\* Calls on the event service.
InitEvents == EventsInit /\ RestForEvents

SpecEvents == InitEvents /\ [][EventsNext]_vars

\* One streamed power request.
InitStream == StreamInit /\ RestForStream

SpecStream == InitStream /\ [][StreamNext]_vars

\* The same, with an event loop that runs every task that can run, outlet
\* calls and sleeps that end, and a generator that is resumed while its client
\* is connected.
SpecStreamLive ==
  /\ InitStream
  /\ [][StreamNext]_vars
  /\ WF_vars(ProdStep)
  /\ WF_vars(LoopPut)
  /\ WF_vars(Consume)
  /\ WF_vars(ConsumerClose)

====
